---- MODULE Spec2Model ----
(***************************************************************************)
(* Lumoria light-intensity classifiers (CopilotAdventures, JavaScript).    *)
(*                                                                         *)
(* calculateLightIntensity (the enhanced system) and                       *)
(* calculateScientificLightIntensity (the scientific module) are modelled  *)
(* as operators over lists of planet records, computed the way the source  *)
(* computes them: a stable sort by distance followed by a per-index map.   *)
(* The state machine is a caller that holds a list of planets, calls the   *)
(* classifiers on it, and may hand the same planets over in another order. *)
(*                                                                         *)
(* Units: distance is an integer number of tenths of an AU (0.4 AU = 4),   *)
(* size is an integer number of km.  The classifiers only compare and      *)
(* subtract distances and compare sizes, so the scaling preserves every    *)
(* branch.  Shadow intensities are in tenths (1.0 = 10, 0.6 = 6, 0.3 = 3). *)
(* The informational angularSize field is a real number that no branch     *)
(* reads; it is left out of the records.                                   *)
(***************************************************************************)
EXTENDS FiniteSets, Integers, Sequences, TLC

VARIABLES
    planets,      \* the list the caller holds and passes to the classifiers
    results,      \* what calculateLightIntensity returned for `planets`
    sciResults,   \* what calculateScientificLightIntensity returned for `planets`
    previous,     \* what an earlier calculateLightIntensity call returned
    returned,     \* which of results / sciResults / previous hold a returned value
    orderSince,   \* how `planets` relates to the argument of the call behind `previous`
    shadows,      \* what calculateShadows returned for `planets`
    call,         \* a call of one of the other functions: its name and arguments
    ret,          \* the outcome of `call`: pending, a returned value, or an error thrown
    entry,        \* an interactive entry loop: which one, its prompt, its local variables
    entered,      \* the planets array the entry loop has pushed to
    resolved      \* what the entry loop, and then the program, ended up with

classifierVars == <<planets, results, sciResults, previous, returned, orderSince, shadows>>
callVars == <<call, ret>>
entryVars == <<entry, entered, resolved>>

vars == <<classifierVars, callVars, entryVars>>

(***************************************************************************)
(* Bounds of the model                                                     *)
(***************************************************************************)
MaxLen == 3
MaxReorderLen == 2
MaxDistance == 3
MaxSizeStep == 2

Distances == 1..MaxDistance
Sizes == {10 + k : k \in 0..MaxSizeStep}

\* Planets are named by entry order, `Planet${i}`.
NamePool == <<"Planet1", "Planet2", "Planet3", "Planet4", "Planet5">>

RECURSIVE SeqsOfLen(_, _)
SeqsOfLen(S, n) ==
    IF n = 0 THEN {<<>>}
    ELSE {Append(s, x) : s \in SeqsOfLen(S, n - 1), x \in S}

Named(s) ==
    [k \in 1..Len(s) |->
        [name |-> NamePool[k], distance |-> s[k].distance, size |-> s[k].size]]

InputsUpTo(maxLen) ==
    {Named(s) : s \in UNION {SeqsOfLen([distance : Distances, size : Sizes], n) :
                                n \in 0..maxLen}}

(***************************************************************************)
(* Program data                                                            *)
(***************************************************************************)
defaultLumoriaPlanets ==
    << [name |-> "Mercuria", distance |-> 4,  size |-> 4879],
       [name |-> "Earthia",  distance |-> 10, size |-> 12742],
       [name |-> "Venusia",  distance |-> 7,  size |-> 12104],
       [name |-> "Marsia",   distance |-> 15, size |-> 6779] >>

(***************************************************************************)
(* [...planets].sort((a, b) => a.distance - b.distance)                    *)
(* Array.prototype.sort is stable: elements that compare equal keep their  *)
(* input order.  The sort is computed as a stable insertion sort: each     *)
(* element p, taken in input order, goes after every already placed        *)
(* element x that stays behind it, i.e. with compare(x, p) <= 0.           *)
(***************************************************************************)
compareReversed(a, b) == b.distance - a.distance

compare(a, b) == a.distance - b.distance

staysBehindTies(x, p) == compare(x, p) < 0

staysBehind(x, p) == compare(x, p) <= 0

RECURSIVE Insert(_, _)
Insert(sorted, p) ==
    IF sorted = <<>> THEN <<p>>
    ELSE IF staysBehind(sorted[Len(sorted)], p) THEN Append(sorted, p)
    ELSE Append(Insert(SubSeq(sorted, 1, Len(sorted) - 1), p),
                sorted[Len(sorted)])

SortNotApplied(ps) == ps

RECURSIVE SortByDistance(_)
SortByDistance(ps) ==
    IF ps = <<>> THEN <<>>
    ELSE Insert(SortByDistance(SubSeq(ps, 1, Len(ps) - 1)), ps[Len(ps)])

(***************************************************************************)
(* Enhanced system: getShadowCount, getLightIntensity,                     *)
(* calculateLightIntensity.  currentIndex / planetIndex are the source's   *)
(* 0-based indices; sequences here are 1-based.                            *)
(***************************************************************************)
slice(ps, from, to) == SubSeq(ps, from + 1, to)

getShadowCountAllCloser(ps, currentIndex) ==
    IF currentIndex = 0 THEN 0
    ELSE Len(slice(ps, 0, currentIndex))

getShadowCountGeq(ps, currentIndex) ==
    IF currentIndex = 0 THEN 0
    ELSE Len(SelectSeq(slice(ps, 0, currentIndex),
                       LAMBDA planet : planet.size >= ps[currentIndex + 1].size))

getShadowCountWholeList(ps, currentIndex) ==
    IF currentIndex = 0 THEN 0
    ELSE Len(SelectSeq(ps, LAMBDA planet : planet.size > ps[currentIndex + 1].size))

getShadowCount(ps, currentIndex) ==
    IF currentIndex = 0 THEN 0
    ELSE Len(SelectSeq(slice(ps, 0, currentIndex),
                       LAMBDA planet : planet.size > ps[currentIndex + 1].size))

getLightIntensityNoMultiple(planetIndex, shadowCount) ==
    IF planetIndex = 0 THEN "Full"
    ELSE IF shadowCount >= 1 THEN "None"
    ELSE "Partial"

getLightIntensityNoFirst(planetIndex, shadowCount) ==
    IF shadowCount = 1 THEN "None"
    ELSE IF shadowCount > 1 THEN "None (Multiple Shadows)"
    ELSE "Partial"

getLightIntensity(planetIndex, shadowCount) ==
    IF planetIndex = 0 THEN "Full"
    ELSE IF shadowCount = 1 THEN "None"
    ELSE IF shadowCount > 1 THEN "None (Multiple Shadows)"
    ELSE "Partial"

calculateLightIntensityDefaultOnEmpty(ps) ==
    LET sortedPlanets == SortByDistance(IF ps = <<>> THEN defaultLumoriaPlanets ELSE ps)
    IN  [ k \in 1..Len(sortedPlanets) |->
            LET i == k - 1
                planet == sortedPlanets[k]
                shadowCount == getShadowCount(sortedPlanets, i)
                lightIntensity == getLightIntensity(i, shadowCount)
                planetsInFront == slice(sortedPlanets, 0, i)
            IN  [ name |-> planet.name,
                  light |-> lightIntensity,
                  distance |-> planet.distance,
                  size |-> planet.size,
                  shadowCount |-> shadowCount,
                  largerPlanetsInFront |->
                      Len(SelectSeq(planetsInFront, LAMBDA p : p.size > planet.size)),
                  smallerPlanetsInFront |->
                      Len(SelectSeq(planetsInFront, LAMBDA p : p.size <= planet.size)) ] ]

calculateLightIntensityStrictlySmaller(ps) ==
    LET sortedPlanets == SortByDistance(ps)
    IN  [ k \in 1..Len(sortedPlanets) |->
            LET i == k - 1
                planet == sortedPlanets[k]
                shadowCount == getShadowCount(sortedPlanets, i)
                lightIntensity == getLightIntensity(i, shadowCount)
                planetsInFront == slice(sortedPlanets, 0, i)
            IN  [ name |-> planet.name,
                  light |-> lightIntensity,
                  distance |-> planet.distance,
                  size |-> planet.size,
                  shadowCount |-> shadowCount,
                  largerPlanetsInFront |->
                      Len(SelectSeq(planetsInFront, LAMBDA p : p.size > planet.size)),
                  smallerPlanetsInFront |->
                      Len(SelectSeq(planetsInFront, LAMBDA p : p.size < planet.size)) ] ]

calculateLightIntensity(ps) ==
    LET sortedPlanets == SortByDistance(ps)
    IN  [ k \in 1..Len(sortedPlanets) |->
            LET i == k - 1
                planet == sortedPlanets[k]
                shadowCount == getShadowCount(sortedPlanets, i)
                lightIntensity == getLightIntensity(i, shadowCount)
                planetsInFront == slice(sortedPlanets, 0, i)
            IN  [ name |-> planet.name,
                  light |-> lightIntensity,
                  distance |-> planet.distance,
                  size |-> planet.size,
                  shadowCount |-> shadowCount,
                  largerPlanetsInFront |->
                      Len(SelectSeq(planetsInFront, LAMBDA p : p.size > planet.size)),
                  smallerPlanetsInFront |->
                      Len(SelectSeq(planetsInFront, LAMBDA p : p.size <= planet.size)) ] ]

(***************************************************************************)
(* Scientific module: calculateShadowInteraction,                          *)
(* getScientificShadowAnalysis, getScientificLightIntensity,               *)
(* calculateScientificLightIntensity.                                      *)
(* size > other.size * 1.1 is evaluated as 10 * size > 11 * other.size     *)
(* (and 0.9 likewise with 9); for the sizes of this model the IEEE-754     *)
(* products round to the same side of every integer as the exact ones.     *)
(***************************************************************************)
calculateShadowInteractionTiedCasts(shadowCaster, shadowReceiver) ==
    IF shadowCaster.distance > shadowReceiver.distance
    THEN [hasShadow |-> FALSE, type |-> "none", intensity |-> 0]
    ELSE IF 10 * shadowCaster.size > 11 * shadowReceiver.size
    THEN [hasShadow |-> TRUE, type |-> "complete", intensity |-> 10]
    ELSE IF 10 * shadowCaster.size > 9 * shadowReceiver.size
    THEN [hasShadow |-> TRUE, type |-> "partial", intensity |-> 6]
    ELSE [hasShadow |-> TRUE, type |-> "minimal", intensity |-> 3]

calculateShadowInteractionAtLeast(shadowCaster, shadowReceiver) ==
    IF shadowCaster.distance >= shadowReceiver.distance
    THEN [hasShadow |-> FALSE, type |-> "none", intensity |-> 0]
    ELSE IF 10 * shadowCaster.size >= 11 * shadowReceiver.size
    THEN [hasShadow |-> TRUE, type |-> "complete", intensity |-> 10]
    ELSE IF 10 * shadowCaster.size >= 9 * shadowReceiver.size
    THEN [hasShadow |-> TRUE, type |-> "partial", intensity |-> 6]
    ELSE [hasShadow |-> TRUE, type |-> "minimal", intensity |-> 3]

calculateShadowInteraction(shadowCaster, shadowReceiver) ==
    IF shadowCaster.distance >= shadowReceiver.distance
    THEN [hasShadow |-> FALSE, type |-> "none", intensity |-> 0]
    ELSE IF 10 * shadowCaster.size > 11 * shadowReceiver.size
    THEN [hasShadow |-> TRUE, type |-> "complete", intensity |-> 10]
    ELSE IF 10 * shadowCaster.size > 9 * shadowReceiver.size
    THEN [hasShadow |-> TRUE, type |-> "partial", intensity |-> 6]
    ELSE [hasShadow |-> TRUE, type |-> "minimal", intensity |-> 3]

RECURSIVE SumIntensity(_)
SumIntensity(details) ==
    IF details = <<>> THEN 0
    ELSE SumIntensity(SubSeq(details, 1, Len(details) - 1))
         + details[Len(details)].intensity

MinUncapped(a, b) == a

Min(a, b) == IF a <= b THEN a ELSE b
Max(a, b) == IF a >= b THEN a ELSE b

getScientificShadowAnalysis(ps, currentIndex) ==
    IF currentIndex = 0
    THEN [shadowCount |-> 0, totalShadowIntensity |-> 0,
          shadowDetails |-> <<>>, lightIntensity |-> 10]
    ELSE
        LET currentPlanet == ps[currentIndex + 1]
            largerPlanetsInFront ==
                SelectSeq(slice(ps, 0, currentIndex),
                          LAMBDA planet : planet.size > currentPlanet.size)
            interactions ==
                [ k \in 1..Len(largerPlanetsInFront) |->
                    [ caster |-> largerPlanetsInFront[k].name,
                      shadowInfo |-> calculateShadowInteraction(
                                         largerPlanetsInFront[k], currentPlanet) ] ]
            casting == SelectSeq(interactions, LAMBDA x : x.shadowInfo.hasShadow)
            shadowDetails ==
                [ k \in 1..Len(casting) |->
                    [ caster |-> casting[k].caster,
                      type |-> casting[k].shadowInfo.type,
                      intensity |-> casting[k].shadowInfo.intensity ] ]
            totalShadowIntensity == SumIntensity(shadowDetails)
            effectiveShadowIntensity == Min(totalShadowIntensity, 10)
            lightIntensity == Max(0, 10 - effectiveShadowIntensity)
        IN  [ shadowCount |-> Len(largerPlanetsInFront),
              totalShadowIntensity |-> effectiveShadowIntensity,
              shadowDetails |-> shadowDetails,
              lightIntensity |-> lightIntensity ]

getScientificLightIntensityByFraction(shadowAnalysis, planetIndex) ==
    IF planetIndex = 0 THEN "Full"
    ELSE IF shadowAnalysis.lightIntensity = 10 THEN "Full"
    ELSE IF shadowAnalysis.lightIntensity > 0 THEN "Partial"
    ELSE IF shadowAnalysis.shadowCount > 1 THEN "None (Multiple Shadows)"
    ELSE "None"

getScientificLightIntensity(shadowAnalysis, planetIndex) ==
    IF planetIndex = 0 THEN "Full"
    ELSE IF shadowAnalysis.shadowCount = 1 THEN "None"
    ELSE IF shadowAnalysis.shadowCount > 1 THEN "None (Multiple Shadows)"
    ELSE "Partial"

calculateScientificLightIntensity(ps) ==
    LET sortedPlanets == SortByDistance(ps)
    IN  [ k \in 1..Len(sortedPlanets) |->
            LET i == k - 1
                planet == sortedPlanets[k]
                shadowAnalysis == getScientificShadowAnalysis(sortedPlanets, i)
                lightIntensity == getScientificLightIntensity(shadowAnalysis, i)
            IN  [ name |-> planet.name,
                  distance |-> planet.distance,
                  size |-> planet.size,
                  light |-> lightIntensity,
                  scientificLightIntensity |-> shadowAnalysis.lightIntensity,
                  shadowCount |-> shadowAnalysis.shadowCount,
                  totalShadowIntensity |-> shadowAnalysis.totalShadowIntensity,
                  shadowDetails |-> shadowAnalysis.shadowDetails ] ]

(***************************************************************************)
(* The caller.  A classifier call copies its argument ([...planets]) and   *)
(* returns a fresh list, so `planets` is left as it was.  Reorder hands    *)
(* the same bodies over in another order (adjacent transposition); the     *)
(* outputs obtained for the old order no longer describe `planets`, the    *)
(* last calculateLightIntensity output is kept in `previous`.              *)
(* orderSince: "same" when `planets` is the very list of the call behind   *)
(* `previous`, "tiesKept" when only bodies of different distance have      *)
(* changed places since, "permuted" otherwise.                             *)
(* Each specification below drives one part of the repository; the         *)
(* variables of the other parts stay idle.                                 *)
(***************************************************************************)
IdleClassifier ==
    /\ planets = <<>>
    /\ results = <<>>
    /\ sciResults = <<>>
    /\ previous = <<>>
    /\ returned = {}
    /\ orderSince = "same"
    /\ shadows = <<>>

IdleCall ==
    /\ call = [fn |-> "none"]
    /\ ret = [status |-> "none"]

IdleEntry ==
    /\ entry = [fn |-> "none"]
    /\ entered = <<>>
    /\ resolved = [status |-> "none"]

Permutations4(s) ==
    { [k \in 1..4 |-> s[f[k]]] :
        f \in {g \in [1..4 -> 1..4] : \A a, b \in 1..4 : a # b => g[a] # g[b]} }

InitWith(inputs) ==
    /\ planets \in inputs
    /\ results = <<>>
    /\ sciResults = <<>>
    /\ previous = <<>>
    /\ returned = {}
    /\ orderSince = "same"
    /\ shadows = <<>>
    /\ IdleCall
    /\ IdleEntry

CallCalculateLightIntensity ==
    /\ results' = calculateLightIntensity(planets)
    /\ IF "results" \in returned
       THEN /\ previous' = results
            /\ returned' = returned \cup {"previous"}
            /\ orderSince' = "same"
       ELSE /\ returned' = returned \cup {"results"}
            /\ UNCHANGED <<previous, orderSince>>
    /\ UNCHANGED <<planets, sciResults, shadows, callVars, entryVars>>

CallCalculateScientificLightIntensity ==
    /\ sciResults' = calculateScientificLightIntensity(planets)
    /\ returned' = returned \cup {"sciResults"}
    /\ UNCHANGED <<planets, results, previous, orderSince, shadows, callVars, entryVars>>

Reorder(i) ==
    /\ i \in 1..(Len(planets) - 1)
    /\ planets' = [planets EXCEPT ![i] = planets[i + 1], ![i + 1] = planets[i]]
    /\ results' = <<>>
    /\ sciResults' = <<>>
    /\ IF "results" \in returned
       THEN /\ previous' = results
            /\ returned' = {"previous"}
            /\ orderSince' = IF planets[i].distance # planets[i + 1].distance
                             THEN "tiesKept" ELSE "permuted"
       ELSE /\ previous' = previous
            /\ returned' = returned \cap {"previous"}
            /\ orderSince' = IF orderSince # "permuted"
                                /\ planets[i].distance # planets[i + 1].distance
                             THEN "tiesKept" ELSE "permuted"
    /\ UNCHANGED <<shadows, callVars, entryVars>>

\* The classifiers called, any number of times, on one list.
Init == InitWith(InputsUpTo(MaxLen) \cup Permutations4(defaultLumoriaPlanets))

Next ==
    \/ CallCalculateLightIntensity
    \/ CallCalculateScientificLightIntensity

Spec == Init /\ [][Next]_vars

\* The same, with the caller also handing the planets over in other orders.
InitOrderings ==
    InitWith(InputsUpTo(MaxReorderLen) \cup Permutations4(defaultLumoriaPlanets))

NextOrderings ==
    \/ CallCalculateLightIntensity
    \/ CallCalculateScientificLightIntensity
    \/ \E i \in 1..Len(planets) : Reorder(i)

SpecOrderings == InitOrderings /\ [][NextOrderings]_vars

(***************************************************************************)
(* The classifiers handed something that may not be an array.              *)
(*                                                                         *)
(* JavaScript values are records with a `kind`.  calculateLightIntensity   *)
(* starts with [...planets]: spreading null, undefined, a number or a      *)
(* plain object throws a TypeError (not iterable); a string spreads into   *)
(* its characters and a Set into its members.  calculateLightIntensities   *)
(* starts with sortedPlanets.map(...): only an array has a map method,     *)
(* everything else throws a TypeError.                                     *)
(* A character has no name, distance or size: the comparator yields NaN,   *)
(* which sort treats as 0 (order kept), and undefined > undefined and      *)
(* undefined <= undefined are both false.                                  *)
(***************************************************************************)
MaxArgLen == 2

Undefined == [kind |-> "undefined"]

NonArrays ==
    {[kind |-> "null"], Undefined, [kind |-> "number"], [kind |-> "object"]}
    \cup {[kind |-> "string", items |-> c] : c \in {<<>>, <<"a">>, <<"a", "b">>}}
    \cup {[kind |-> "set", items |-> ps] : ps \in InputsUpTo(1)}

Arguments ==
    NonArrays
    \cup {[kind |-> "array", items |-> ps] : ps \in InputsUpTo(MaxArgLen)}
    \cup {[kind |-> "array", items |-> SortByDistance(defaultLumoriaPlanets)]}

Threw(error) == [status |-> "threw", error |-> error]
Returned(value) == [status |-> "returned", value |-> value]

spreadAccepts(x) == x.kind \in {"array", "string", "set"}

classifyCharacters(chars) ==
    [ k \in 1..Len(chars) |->
        [ name |-> Undefined,
          light |-> getLightIntensity(k - 1, 0),
          distance |-> Undefined,
          size |-> Undefined,
          shadowCount |-> 0,
          largerPlanetsInFront |-> 0,
          smallerPlanetsInFront |-> 0 ] ]

calculateLightIntensityOfValue(x) ==
    IF ~spreadAccepts(x) THEN Threw("TypeError")
    ELSE IF x.kind = "string" THEN Returned(classifyCharacters(x.items))
    ELSE Returned(calculateLightIntensity(x.items))

\* lumoria-light-intensity.js: planets carry `diameter`, the input is already sorted
ShadowType ==
    [FULL |-> "Full", PARTIAL |-> "Partial", NONE |-> "None",
     MULTI |-> "None (Multiple Shadows)"]

WithDiameter(ps) ==
    [k \in 1..Len(ps) |->
        [name |-> ps[k].name, distance |-> ps[k].distance, diameter |-> ps[k].size]]

calculateLightIntensities(sortedPlanets) ==
    [ k \in 1..Len(sortedPlanets) |->
        LET idx == k - 1
            planet == sortedPlanets[k]
            closer == slice(sortedPlanets, 0, idx)
            largerCloser == SelectSeq(closer, LAMBDA p : p.diameter > planet.diameter)
            smallerCloser == SelectSeq(closer, LAMBDA p : p.diameter < planet.diameter)
            shadow ==
                IF Len(closer) > 1 THEN ShadowType.MULTI
                ELSE IF Len(largerCloser) > 0 THEN ShadowType.FULL
                ELSE IF Len(smallerCloser) > 0 THEN ShadowType.PARTIAL
                ELSE ShadowType.NONE
        IN  [ name |-> planet.name,
              distance |-> planet.distance,
              diameter |-> planet.diameter,
              shadow |-> shadow,
              closerCount |-> Len(closer),
              largerCloserCount |-> Len(largerCloser),
              smallerCloserCount |-> Len(smallerCloser) ] ]

calculateLightIntensitiesOfValue(x) ==
    IF x.kind # "array" THEN Threw("TypeError")
    ELSE Returned(calculateLightIntensities(WithDiameter(x.items)))

InitNonList ==
    /\ IdleClassifier
    /\ IdleEntry
    /\ call \in [fn : {"calculateLightIntensity", "calculateLightIntensities"},
                 arg : Arguments]
    /\ ret = [status |-> "none"]

CalculateLightIntensityOfValue ==
    /\ call.fn = "calculateLightIntensity"
    /\ ret.status = "none"
    /\ ret' = calculateLightIntensityOfValue(call.arg)
    /\ UNCHANGED <<call, classifierVars, entryVars>>

CalculateLightIntensitiesOfValue ==
    /\ call.fn = "calculateLightIntensities"
    /\ ret.status = "none"
    /\ ret' = calculateLightIntensitiesOfValue(call.arg)
    /\ UNCHANGED <<call, classifierVars, entryVars>>

NextNonList ==
    \/ CalculateLightIntensityOfValue
    \/ CalculateLightIntensitiesOfValue

SpecNonList == InitNonList /\ [][NextNonList]_vars


(***************************************************************************)
(* Star system manager: validatePlanet and validateStarSystem.             *)
(*                                                                         *)
(* Field values are JavaScript values: numbers, NaN (typeof 'number'),     *)
(* strings and undefined.  Distances are in thousandths of an AU (the      *)
(* 50 AU limit is 50000, the 0.01 AU orbit threshold is 10), sizes in km.  *)
(* NaN compares false with everything; a string is coerced by > and by     *)
(* parseFloat.                                                             *)
(***************************************************************************)
MaxPlanets == 2

distanceLimit == 50000
sizeLimit == 150000
sameOrbitThreshold == 10
AU == 1000

Num(v) == [kind |-> "number", v |-> v]
NaN == [kind |-> "NaN"]
Str(s) == [kind |-> "string", s |-> s]

typeof(x) ==
    CASE x.kind \in {"number", "NaN"} -> "number"
      [] x.kind = "string" -> "string"
      [] OTHER -> "undefined"

\* the numeric reading of a string, in units of 1/scale
StringToNumber(s, scale) ==
    CASE s = "60" -> Num(60 * scale)
      [] s = "5" -> Num(5 * scale)
      [] s = "2" -> Num(2 * scale)
      [] s = "1" -> Num(scale)
      [] s = "0" -> Num(0)
      [] OTHER -> NaN

parseFloat(x, scale) ==
    CASE x.kind = "number" -> x
      [] x.kind = "string" -> StringToNumber(x.s, scale)
      [] OTHER -> NaN

\* x <= 0 and x > limit on a value that typeof reports as it is
lessOrEqualZero(x, scale) ==
    LET n == parseFloat(x, scale) IN n.kind = "number" /\ n.v <= 0

greaterThan(x, limit, scale) ==
    LET n == parseFloat(x, scale) IN n.kind = "number" /\ n.v > limit

trim(s) ==
    CASE s = " " -> ""
      [] OTHER -> s

toLowerCase(s) ==
    CASE s = "A" -> "a"
      [] s = "B" -> "b"
      [] OTHER -> s

\* !planet.name || typeof planet.name !== 'string' || planet.name.trim().length === 0
nameMissing(name) ==
    \/ name.kind = "undefined"
    \/ name.kind = "string" /\ name.s = ""
    \/ typeof(name) # "string"
    \/ trim(name.s) = ""

trimmed(name) == IF name.kind = "string" THEN Str(trim(name.s)) ELSE Undefined

NameRequired == "Planet name is required and must be a non-empty string"
DistancePositive == "Distance must be a positive number (AU)"
SizePositive == "Size must be a positive number (km diameter)"
DistanceTooLarge == "Distance seems unrealistically large (>50 AU) - please verify"
SizeTooLarge == "Size seems unrealistically large (>150,000 km) - please verify"

When(cond, message) == IF cond THEN <<message>> ELSE <<>>

validatePlanet(planet) ==
    LET errors ==
            When(nameMissing(planet.name), NameRequired)
            \o When(typeof(planet.distance) # "number"
                        \/ lessOrEqualZero(planet.distance, AU), DistancePositive)
            \o When(typeof(planet.size) # "number"
                        \/ lessOrEqualZero(planet.size, 1), SizePositive)
            \o When(greaterThan(planet.distance, distanceLimit, AU), DistanceTooLarge)
            \o When(greaterThan(planet.size, sizeLimit, 1), SizeTooLarge)
    IN  [ isValid |-> Len(errors) = 0,
          errors |-> errors,
          planet |-> [ name |-> trimmed(planet.name),
                       distance |-> parseFloat(planet.distance, AU),
                       size |-> parseFloat(planet.size, 1) ] ]

\* a.distance - b.distance < 0; NaN when either distance is NaN, which sort reads as 0
distanceBefore(a, b) ==
    a.distance.kind = "number" /\ b.distance.kind = "number"
        /\ a.distance.v < b.distance.v

RECURSIVE InsertValidated(_, _)
InsertValidated(sorted, p) ==
    IF sorted = <<>> THEN <<p>>
    ELSE IF distanceBefore(p, sorted[Len(sorted)])
         THEN Append(InsertValidated(SubSeq(sorted, 1, Len(sorted) - 1), p),
                     sorted[Len(sorted)])
         ELSE Append(sorted, p)

RECURSIVE sortValidated(_)
sortValidated(ps) ==
    IF ps = <<>> THEN <<>>
    ELSE InsertValidated(sortValidated(SubSeq(ps, 1, Len(ps) - 1)), ps[Len(ps)])

\* Math.abs(d - dist) < 0.01, and find's result read as a truth value
sameOrbit(d, dist) ==
    /\ d.kind = "number" /\ dist.kind = "number"
    /\ (IF d.v >= dist.v THEN d.v - dist.v ELSE dist.v - d.v) < sameOrbitThreshold
    /\ d.v # 0

RECURSIVE planetErrorsFrom(_, _)
planetErrorsFrom(items, k) ==
    IF k > Len(items) THEN <<>>
    ELSE LET validation == validatePlanet(items[k])
         IN  When(~validation.isValid,
                  [text |-> "Planet", index |-> k, errors |-> validation.errors])
             \o planetErrorsFrom(items, k + 1)

RECURSIVE validatedFrom(_, _)
validatedFrom(items, k) ==
    IF k > Len(items) THEN <<>>
    ELSE LET validation == validatePlanet(items[k])
         IN  (IF validation.isValid THEN <<validation.planet>> ELSE <<>>)
             \o validatedFrom(items, k + 1)

validateStarSystem(system) ==
    LET isArray == system.planets.kind = "array"
        validatedPlanets == IF isArray THEN validatedFrom(system.planets.items, 1) ELSE <<>>
        planetNames == [k \in 1..Len(validatedPlanets) |->
                            toLowerCase(validatedPlanets[k].name.s)]
        duplicates == {planetNames[k] : k \in {j \in 1..Len(planetNames) :
                            \E i \in 1..(j - 1) : planetNames[i] = planetNames[j]}}
        distances == [k \in 1..Len(validatedPlanets) |-> validatedPlanets[k].distance]
        duplicateDistances == {k \in 1..Len(distances) :
                            \E i \in 1..Len(distances) :
                                i # k /\ sameOrbit(distances[i], distances[k])}
        errors ==
            When(nameMissing(system.name), [text |-> "Star system name is required"])
            \o (IF ~isArray \/ Len(system.planets.items) = 0
                THEN <<[text |-> "At least one planet is required"]>>
                ELSE planetErrorsFrom(system.planets.items, 1)
                     \o When(duplicates # {},
                             [text |-> "Duplicate planet names found", names |-> duplicates])
                     \o When(duplicateDistances # {},
                             [text |-> "Multiple planets cannot occupy the same orbital distance"]))
    IN  [ isValid |-> Len(errors) = 0,
          errors |-> errors,
          validatedSystem |-> [ name |-> trimmed(system.name),
                                planets |-> sortValidated(validatedPlanets) ] ]

\* what validatePlanet is exercised with
PlanetObjects ==
    [ name : {Undefined, Str(""), Str(" "), Str("A"), Str("a"), Str("B")},
      distance : {Num(0 - AU), Num(0), Num(AU), Num(AU + 5), Num(2 * AU),
                  Num(distanceLimit), Num(distanceLimit + 1),
                  NaN, Str("60"), Str("abc"), Undefined},
      size : {Num(0 - 1), Num(0), Num(100), Num(sizeLimit), Num(sizeLimit + 1),
              NaN, Str("5"), Undefined} ]

\* what a system is made of
SystemPlanetObjects ==
    [ name : {Str(""), Str("A"), Str("a"), Str("B")},
      distance : {Num(0), Num(AU), Num(AU + 5), Num(2 * AU), NaN},
      size : {Num(0), Num(100)} ]

RECURSIVE ObjectSeqsOfLen(_, _)
ObjectSeqsOfLen(S, n) ==
    IF n = 0 THEN {<<>>}
    ELSE {Append(q, x) : q \in ObjectSeqsOfLen(S, n - 1), x \in S}

Systems(maxPlanets) ==
    [ name : {Str("Custom"), Str(" ")},
      planets : {Undefined} \cup
                {[kind |-> "array", items |-> q] :
                    q \in UNION {ObjectSeqsOfLen(SystemPlanetObjects, n) : n \in 0..maxPlanets}} ]

InitValidation ==
    /\ IdleClassifier
    /\ IdleEntry
    /\ call \in [fn : {"validatePlanet"}, arg : PlanetObjects]
                \cup [fn : {"validateStarSystem"}, arg : Systems(MaxPlanets)]
    /\ ret = [status |-> "none"]

ValidatePlanet ==
    /\ call.fn = "validatePlanet"
    /\ ret.status = "none"
    /\ ret' = Returned(validatePlanet(call.arg))
    /\ UNCHANGED <<call, classifierVars, entryVars>>

ValidateStarSystem ==
    /\ call.fn = "validateStarSystem"
    /\ ret.status = "none"
    /\ ret' = Returned(validateStarSystem(call.arg))
    /\ UNCHANGED <<call, classifierVars, entryVars>>

NextValidation ==
    \/ ValidatePlanet
    \/ ValidateStarSystem

SpecValidation == InitValidation /\ [][NextValidation]_vars


(***************************************************************************)
(* calculateShadowInteraction called on its own, as the scientific test    *)
(* suite does, with casters both smaller and larger than the receiver and  *)
(* sizes that hit 90% and 110% of the receiver's size exactly.             *)
(***************************************************************************)
MaxInteractionSize == 12

InteractionSizes == 8..MaxInteractionSize

InteractionBodies == [distance : Distances, size : InteractionSizes]

InitInteraction ==
    /\ IdleClassifier
    /\ IdleEntry
    /\ call \in [fn : {"calculateShadowInteraction"},
                 shadowCaster : InteractionBodies,
                 shadowReceiver : InteractionBodies]
    /\ ret = [status |-> "none"]

CallCalculateShadowInteraction ==
    /\ call.fn = "calculateShadowInteraction"
    /\ ret.status = "none"
    /\ ret' = Returned(calculateShadowInteraction(call.shadowCaster, call.shadowReceiver))
    /\ UNCHANGED <<call, classifierVars, entryVars>>

NextInteraction == CallCalculateShadowInteraction

SpecInteraction == InitInteraction /\ [][NextInteraction]_vars


(***************************************************************************)
(* analyzeStarSystem and the SVG generator's file writes.                  *)
(*                                                                         *)
(* A write to disk either succeeds or throws; which it does is the         *)
(* environment's choice, recorded in ret.disk.  saveSVGToFile wraps its    *)
(* whole body in try/catch and returns null from the catch;                *)
(* analyzeStarSystem wraps fs.writeFile of the report in try/catch and     *)
(* sets reportPath inside the try, after the write.                        *)
(***************************************************************************)
Null == [kind |-> "null"]

DiskOutcome(requested, fails) ==
    IF ~requested THEN "skipped" ELSE IF fails THEN "failed" ELSE "written"

saveSVGToFile(filename, fails) ==
    IF fails
    THEN [threw |-> FALSE, value |-> Null, logged |-> <<"Error saving SVG">>]
    ELSE [threw |-> FALSE, value |-> Str(filename), logged |-> <<>>]

generateCompleteSVGPackage(staticFails, animatedFails) ==
    LET staticPath == saveSVGToFile("alignment.svg", staticFails)
        animatedPath == saveSVGToFile("animated.svg", animatedFails)
    IN  [ threw |-> staticPath.threw \/ animatedPath.threw,
          value |-> [staticPath |-> staticPath.value, animatedPath |-> animatedPath.value],
          logged |-> staticPath.logged \o animatedPath.logged ]

saveReportUncaught(fails) ==
    IF fails
    THEN [threw |-> TRUE, reportPath |-> Undefined, logged |-> <<>>]
    ELSE [threw |-> FALSE, reportPath |-> Str("alignment-report.txt"), logged |-> <<>>]

saveReport(fails) ==
    IF fails
    THEN [threw |-> FALSE, reportPath |-> Undefined, logged |-> <<"Error saving report">>]
    ELSE [threw |-> FALSE, reportPath |-> Str("alignment-report.txt"), logged |-> <<>>]

analyzeStarSystem(system, generateSVG, generateReport, staticFails, animatedFails, reportFails) ==
    LET scientificResults == calculateScientificLightIntensity(system.planets)
        svgResults == generateCompleteSVGPackage(staticFails, animatedFails)
        report == saveReport(reportFails)
        disk == [ static |-> DiskOutcome(generateSVG, staticFails),
                  animated |-> DiskOutcome(generateSVG, animatedFails),
                  report |-> DiskOutcome(generateReport, reportFails) ]
    IN  IF (generateSVG /\ svgResults.threw) \/ (generateReport /\ report.threw)
        THEN [status |-> "threw", error |-> "Error", disk |-> disk]
        ELSE [ status |-> "returned",
               value |-> [ systemName |-> system.name,
                           planets |-> scientificResults,
                           visualizations |->
                               IF generateSVG THEN svgResults.value ELSE Undefined,
                           reportPath |->
                               IF generateReport THEN report.reportPath ELSE Undefined ],
               logged |-> (IF generateSVG THEN svgResults.logged ELSE <<>>)
                          \o (IF generateReport THEN report.logged ELSE <<>>),
               disk |-> disk ]

InitAnalysis ==
    /\ IdleClassifier
    /\ IdleEntry
    /\ call \in [fn : {"analyzeStarSystem"},
                 system : [name : {"Custom"}, planets : InputsUpTo(MaxArgLen)],
                 generateSVG : BOOLEAN,
                 generateReport : BOOLEAN]
                \cup [fn : {"saveSVGToFile"}, filename : {"alignment.svg", "animated.svg"}]
    /\ ret = [status |-> "none"]

AnalyzeStarSystem ==
    /\ call.fn = "analyzeStarSystem"
    /\ ret.status = "none"
    /\ \E staticFails, animatedFails, reportFails \in BOOLEAN :
            /\ (~call.generateSVG => ~staticFails /\ ~animatedFails)
            /\ (~call.generateReport => ~reportFails)
            /\ ret' = analyzeStarSystem(call.system, call.generateSVG, call.generateReport,
                                        staticFails, animatedFails, reportFails)
    /\ UNCHANGED <<call, classifierVars, entryVars>>

SaveSVGToFile ==
    /\ call.fn = "saveSVGToFile"
    /\ ret.status = "none"
    /\ \E fails \in BOOLEAN :
            LET saved == saveSVGToFile(call.filename, fails)
            IN  ret' = IF saved.threw
                       THEN [status |-> "threw", error |-> "Error",
                             disk |-> [static |-> DiskOutcome(TRUE, fails)]]
                       ELSE [status |-> "returned", value |-> saved.value,
                             logged |-> saved.logged,
                             disk |-> [static |-> DiskOutcome(TRUE, fails)]]
    /\ UNCHANGED <<call, classifierVars, entryVars>>

NextAnalysis ==
    \/ AnalyzeStarSystem
    \/ SaveSVGToFile

SpecAnalysis == InitAnalysis /\ [][NextAnalysis]_vars


(***************************************************************************)
(* The interactive entry loops: promptPlanets, getCustomPlanetData (with   *)
(* the question main asks before calling it, and what main does with the   *)
(* answer) and interactiveSystemCreator.                                   *)
(*                                                                         *)
(* entry.at is the prompt the user is looking at, entry.answer the last    *)
(* line typed, entry.said the last thing reported about an entry,          *)
(* entry.name and entry.distance the answers held for the planet being     *)
(* entered; entered is the loop's `planets` array and resolved what the    *)
(* loop finally yields.  One action per prompt; the answer is the user's   *)
(* choice.  Distances are in thousandths of an AU as in validatePlanet.    *)
(***************************************************************************)
MaxEntered == 2

defaultPlanets ==
    << [name |-> "Mercuria", distance |-> 4,  diameter |-> 4879],
       [name |-> "Venusia",  distance |-> 7,  diameter |-> 12104],
       [name |-> "Earthia",  distance |-> 10, diameter |-> 12742],
       [name |-> "Marsia",   distance |-> 15, diameter |-> 6779] >>

ConfirmAnswers == {"y", "yes", "n", ""}
NameAnswers == {"A", "B", "", " "}
NumberAnswers == {"1", "2", "0", "abc"}

\* answer.trim().toLowerCase() !== 'y'
promptPlanetsDeclined(answer) == answer # "y"

\* answer.toLowerCase().startsWith('y')
useCustomData(answer) == answer \in {"y", "yes"}

isNaN(x) == x.kind # "number"

\* isNaN(n) || n <= 0
invalidNumber(x) == isNaN(x) \/ x.v <= 0

ToBodies(ps) ==
    [k \in 1..Len(ps) |->
        [name |-> ps[k].name.s, distance |-> ps[k].distance.v, size |-> ps[k].size.v]]

Resolved(source, ps) == [status |-> "resolved", source |-> source, planets |-> ps]

\* planets.length === 0 ? resolve(defaultPlanets) : resolve(planets)
promptPlanetsResolveEntered(ps) == Resolved("custom", ps)

promptPlanetsResolve(ps) ==
    IF Len(ps) = 0 THEN Resolved("default", defaultPlanets) ELSE Resolved("custom", ps)

\* main: the list it settles on, sorted and classified
mainResolved(source, ps, bodies) ==
    [ status |-> "resolved", source |-> source, planets |-> ps,
      results |-> calculateLightIntensity(SortByDistance(bodies)) ]

\* getCustomPlanetData returns planets or null; main replaces null by the default
mainAfterCustomData(ps) ==
    IF Len(ps) = 0
    THEN mainResolved("default", defaultLumoriaPlanets, defaultLumoriaPlanets)
    ELSE mainResolved("custom", ps, ToBodies(ps))

At(fn, at) == entry.fn = fn /\ entry.at = at

Goto(at, answer, said) ==
    [entry EXCEPT !.at = at, !.answer = answer, !.said = said]

Holding(at, answer, name, distance) ==
    [entry EXCEPT !.at = at, !.answer = answer, !.said = "",
                  !.name = name, !.distance = distance]

\* askPlanet(i) after a rejection, `continue`: the name prompt with the number kept
NextPlanet(answer, said) ==
    [entry EXCEPT !.at = "name", !.answer = answer, !.said = said,
                  !.name = "", !.distance = NaN]

AcceptedPlanetSameNumber(answer, said) == NextPlanet(answer, said)

\* askPlanet(i+1), planetIndex++: the name prompt of the next planet
AcceptedPlanet(answer, said) ==
    [NextPlanet(answer, said) EXCEPT !.planetIndex = @ + 1]

\* `planet #${i+1}` with i counted from 0, `Planet ${planetIndex}` counted from 1
PlanetNumberShown ==
    IF entry.fn = "promptPlanets" THEN entry.planetIndex + 1 ELSE entry.planetIndex

InitEntry ==
    /\ IdleClassifier
    /\ IdleCall
    /\ entry \in { [fn |-> f[1], at |-> f[2], answer |-> "", said |-> "",
                    systemName |-> "", name |-> "", distance |-> NaN,
                    planetIndex |-> f[3]] :
                   f \in { <<"promptPlanets", "confirm", 0>>,
                           <<"getCustomPlanetData", "confirm", 1>>,
                           <<"interactiveSystemCreator", "systemName", 1>> } }
    /\ entered = <<>>
    /\ resolved = [status |-> "none"]

AnswerConfirm ==
    /\ entry.at = "confirm"
    /\ \E answer \in ConfirmAnswers :
        \/ /\ entry.fn = "promptPlanets"
           /\ IF promptPlanetsDeclined(answer)
              THEN /\ entry' = Goto("done", answer, "")
                   /\ resolved' = Resolved("default", defaultPlanets)
              ELSE /\ entry' = Goto("name", answer, "")
                   /\ UNCHANGED resolved
        \/ /\ entry.fn = "getCustomPlanetData"
           /\ IF useCustomData(answer)
              THEN /\ entry' = Goto("name", answer, "")
                   /\ UNCHANGED resolved
              ELSE /\ entry' = Goto("done", answer, "")
                   /\ resolved' = mainResolved("default", defaultLumoriaPlanets,
                                               defaultLumoriaPlanets)
    /\ UNCHANGED <<entered, classifierVars, callVars>>

AnswerSystemName ==
    /\ At("interactiveSystemCreator", "systemName")
    /\ \E answer \in {"Custom", "", " "} :
        IF trim(answer) = ""
        THEN /\ entry' = Goto("done", answer, "System name is required")
             /\ resolved' = Resolved("null", <<>>)
        ELSE /\ entry' = [Goto("description", answer, "") EXCEPT !.systemName = answer]
             /\ UNCHANGED resolved
    /\ UNCHANGED <<entered, classifierVars, callVars>>

AnswerDescription ==
    /\ At("interactiveSystemCreator", "description")
    /\ \E answer \in {"", "a small system"} :
        entry' = Goto("name", answer, "")
    /\ UNCHANGED <<entered, resolved, classifierVars, callVars>>

\* an empty name ends the loop
FinishEntry(answer) ==
    \/ /\ entry.fn = "promptPlanets"
       /\ entry' = Goto("done", answer, "")
       /\ resolved' = promptPlanetsResolve(entered)
    \/ /\ entry.fn = "getCustomPlanetData"
       /\ entry' = Goto("done", answer, "")
       /\ resolved' = mainAfterCustomData(entered)
    \/ /\ entry.fn = "interactiveSystemCreator"
       /\ IF Len(entered) = 0
          THEN /\ entry' = Goto("done", answer, "No valid planets added")
               /\ resolved' = Resolved("null", <<>>)
          ELSE LET validation ==
                       validateStarSystem([name |-> Str(trim(entry.systemName)),
                                           planets |-> [kind |-> "array",
                                                        items |-> entered]])
               IN  IF validation.isValid
                   THEN /\ entry' = Goto("analyze", answer, "")
                        /\ UNCHANGED resolved
                   ELSE /\ entry' = Goto("done", answer, "Star system validation failed")
                        /\ resolved' = [ status |-> "resolved", source |-> "rejected",
                                         planets |-> <<>>,
                                         errors |-> validation.errors ]

AnswerName ==
    /\ entry.at = "name"
    /\ \E answer \in NameAnswers :
        IF trim(answer) = ""
        THEN FinishEntry(answer)
        ELSE /\ Len(entered) < MaxEntered
             /\ entry' = Holding("distance", answer, answer, NaN)
             /\ UNCHANGED resolved
    /\ UNCHANGED <<entered, classifierVars, callVars>>

AnswerDistance ==
    /\ entry.at = "distance"
    /\ \E answer \in NumberAnswers :
        LET distNum == parseFloat(Str(answer), AU)
        IN  IF entry.fn = "promptPlanets" /\ invalidNumber(distNum)
            THEN entry' = NextPlanet(answer, "Invalid distance. Try again.")
            ELSE entry' = Holding("diameter", answer, entry.name, distNum)
    /\ UNCHANGED <<entered, resolved, classifierVars, callVars>>

AnswerDiameter ==
    /\ entry.at = "diameter"
    /\ \E answer \in NumberAnswers :
        LET size == parseFloat(Str(answer), 1)
            distance == entry.distance
        IN  \/ /\ entry.fn = "promptPlanets"
               /\ IF invalidNumber(size)
                  THEN /\ entry' = NextPlanet(answer, "Invalid diameter. Try again.")
                       /\ UNCHANGED entered
                  ELSE /\ entered' = Append(entered,
                                        [ name |-> Str(trim(entry.name)),
                                          distance |-> distance,
                                          diameter |-> size ])
                       /\ entry' = AcceptedPlanet(answer, "")
            \/ /\ entry.fn = "getCustomPlanetData"
               /\ IF isNaN(distance) \/ isNaN(size) \/ distance.v <= 0 \/ size.v <= 0
                  THEN /\ entry' = NextPlanet(answer,
                                        "Invalid input. Please enter positive numbers.")
                       /\ UNCHANGED entered
                  ELSE /\ entered' = Append(entered,
                                        [ name |-> Str(trim(entry.name)),
                                          distance |-> distance,
                                          size |-> size ])
                       /\ entry' = AcceptedPlanet(answer, "Added")
            \/ /\ entry.fn = "interactiveSystemCreator"
               /\ LET planet == [ name |-> Str(trim(entry.name)),
                                  distance |-> distance,
                                  size |-> size ]
                      validation == validatePlanet(planet)
                  IN  IF validation.isValid
                      THEN /\ entered' = Append(entered, validation.planet)
                           /\ entry' = AcceptedPlanet(answer, "Added")
                      ELSE /\ entry' = NextPlanet(answer, "Invalid planet data")
                           /\ UNCHANGED entered
    /\ UNCHANGED <<resolved, classifierVars, callVars>>

AnswerAnalyze ==
    /\ At("interactiveSystemCreator", "analyze")
    /\ \E answer \in {"", "n"} :
        /\ entry' = Goto("done", answer, "")
        /\ resolved' =
              [ status |-> "resolved", source |-> "custom",
                planets |-> validateStarSystem(
                                [name |-> Str(trim(entry.systemName)),
                                 planets |-> [kind |-> "array", items |-> entered]]
                            ).validatedSystem.planets,
                analyzed |-> answer # "n" ]
    /\ UNCHANGED <<entered, classifierVars, callVars>>

NextEntry ==
    \/ AnswerConfirm
    \/ AnswerSystemName
    \/ AnswerDescription
    \/ AnswerName
    \/ AnswerDistance
    \/ AnswerDiameter
    \/ AnswerAnalyze

SpecEntry == InitEntry /\ [][NextEntry]_vars


(***************************************************************************)
(* The classifiers and the list they are handed.                           *)
(*                                                                         *)
(* Each classifier begins with [...planets].sort(...): the sort works on a *)
(* fresh array, and the results are built as new objects, so the caller's  *)
(* array is what it was.  SortedCopy gives both arrays after that line.    *)
(* calculateShadows' angDiameter, distDiff and pRadius are display values  *)
(* (floating point) and are left out of `shadowing`.                       *)
(***************************************************************************)
STAR_SYSTEM_TEMPLATES ==
    [ lumoria |->
        [ name |-> "Lumoria",
          planets |-> << [name |-> "Mercuria", distance |-> 4,  size |-> 4879],
                         [name |-> "Earthia",  distance |-> 10, size |-> 12742],
                         [name |-> "Venusia",  distance |-> 7,  size |-> 12104],
                         [name |-> "Marsia",   distance |-> 15, size |-> 6779] >> ],
      andromeda |->
        [ name |-> "Andromeda Alpha",
          planets |-> << [name |-> "Proxima",    distance |-> 2,  size |-> 3200],
                         [name |-> "Centauri",   distance |-> 5,  size |-> 8900],
                         [name |-> "Vega",       distance |-> 8,  size |-> 15600],
                         [name |-> "Altair",     distance |-> 12, size |-> 11200],
                         [name |-> "Rigel",      distance |-> 18, size |-> 6400],
                         [name |-> "Betelgeuse", distance |-> 25, size |-> 4100] >> ],
      solaris |->
        [ name |-> "Solaris Minor",
          planets |-> << [name |-> "Ignis",   distance |-> 3,  size |-> 4900],
                         [name |-> "Terra",   distance |-> 10, size |-> 12800],
                         [name |-> "Glacies", distance |-> 18, size |-> 7200],
                         [name |-> "Ventus",  distance |-> 32, size |-> 5100] >> ] ]

SortedInPlace(ps) == [sorted |-> SortByDistance(ps), planets |-> SortByDistance(ps)]

SortedCopy(ps) == [sorted |-> SortByDistance(ps), planets |-> ps]

calculateShadowsByCountOnly(ps) ==
    LET sorted == SortedCopy(ps).sorted
    IN  [ k \in 1..Len(sorted) |->
            LET idx == k - 1
                planet == sorted[k]
                closer == slice(sorted, 0, idx)
                shadowing == [j \in 1..Len(closer) |->
                                 [name |-> closer[j].name, size |-> closer[j].size]]
                shadowType ==
                    IF Len(closer) = 0 THEN "Full"
                    ELSE IF Len(closer) > 1 THEN "None (Multiple Shadows)"
                    ELSE "Partial"
            IN  [ name |-> planet.name,
                  shadowType |-> shadowType,
                  shadowing |-> shadowing,
                  distance |-> planet.distance,
                  size |-> planet.size ] ]

calculateShadows(ps) ==
    LET sorted == SortedCopy(ps).sorted
    IN  [ k \in 1..Len(sorted) |->
            LET idx == k - 1
                planet == sorted[k]
                closer == slice(sorted, 0, idx)
                shadowing == [j \in 1..Len(closer) |->
                                 [name |-> closer[j].name, size |-> closer[j].size]]
                shadowType ==
                    IF Len(closer) = 0 THEN "Full"
                    ELSE IF Len(closer) > 1 THEN "None (Multiple Shadows)"
                    ELSE IF closer[1].size > planet.size THEN "None"
                    ELSE "Partial"
            IN  [ name |-> planet.name,
                  shadowType |-> shadowType,
                  shadowing |-> shadowing,
                  distance |-> planet.distance,
                  size |-> planet.size ] ]

InitFrame ==
    InitWith(InputsUpTo(MaxArgLen)
             \cup {defaultLumoriaPlanets}
             \cup {STAR_SYSTEM_TEMPLATES[t].planets : t \in {"lumoria", "andromeda", "solaris"}})

ClassifyWithCalculateLightIntensity ==
    /\ planets' = SortedCopy(planets).planets
    /\ results' = calculateLightIntensity(planets)
    /\ returned' = returned \cup {"results"}
    /\ UNCHANGED <<sciResults, previous, orderSince, shadows, callVars, entryVars>>

ClassifyWithCalculateScientificLightIntensity ==
    /\ planets' = SortedCopy(planets).planets
    /\ sciResults' = calculateScientificLightIntensity(planets)
    /\ returned' = returned \cup {"sciResults"}
    /\ UNCHANGED <<results, previous, orderSince, shadows, callVars, entryVars>>

ClassifyWithCalculateShadows ==
    /\ planets' = SortedCopy(planets).planets
    /\ shadows' = calculateShadows(planets)
    /\ returned' = returned \cup {"shadows"}
    /\ UNCHANGED <<results, sciResults, previous, orderSince, callVars, entryVars>>

NextFrame ==
    \/ ClassifyWithCalculateLightIntensity
    \/ ClassifyWithCalculateScientificLightIntensity
    \/ ClassifyWithCalculateShadows

SpecFrame == InitFrame /\ [][NextFrame]_vars


(***************************************************************************)
(* The Clockwork Town of Tempora: parseTimeToMinutes.                      *)
(*                                                                         *)
(* A string is a sequence of one-character strings.  The regular           *)
(* expression /^([01]?\d|2[0-3]):([0-5]\d)$/ is matched by its structure:  *)
(* the hour group is everything before the first ':', the minute group     *)
(* everything after it, and ^ and $ leave no other characters.             *)
(***************************************************************************)
MaxTimeLen == 5

TimeChars == {"0", "1", "2", "3", "4", "5", "6", "7", "8", "9", ":", "b"}

TimeStringsOfLen(n) == [1..n -> TimeChars]

Digits == <<"0", "1", "2", "3", "4", "5", "6", "7", "8", "9">>

\* \d
IsDigit(c) == \E d \in 1..10 : Digits[d] = c

DigitValue(c) == (CHOOSE d \in 1..10 : Digits[d] = c) - 1

\* parseInt(text, 10) of a string of digits
RECURSIVE parseInt(_)
parseInt(text) ==
    IF text = <<>> THEN 0
    ELSE 10 * parseInt(SubSeq(text, 1, Len(text) - 1)) + DigitValue(text[Len(text)])

\* 2[0-4]
matchesTwentiesThroughFour(hour) ==
    Len(hour) = 2 /\ hour[1] = "2" /\ hour[2] \in {"0", "1", "2", "3", "4"}

\* 2[0-3]
matchesTwenties(hour) ==
    Len(hour) = 2 /\ hour[1] = "2" /\ hour[2] \in {"0", "1", "2", "3"}

\* [01]?\d
matchesUpToNineteen(hour) ==
    \/ Len(hour) = 1 /\ IsDigit(hour[1])
    \/ Len(hour) = 2 /\ hour[1] \in {"0", "1"} /\ IsDigit(hour[2])

\* [0-5]\d
matchesMinute(minute) ==
    Len(minute) = 2 /\ minute[1] \in {"0", "1", "2", "3", "4", "5"} /\ IsDigit(minute[2])

\* the groups of the match, or no match
exec(timeStr) ==
    LET colons == {k \in 1..Len(timeStr) : timeStr[k] = ":"}
    IN  IF colons = {} THEN [matched |-> FALSE]
        ELSE LET k == CHOOSE c \in colons : \A other \in colons : c <= other
                 hour == SubSeq(timeStr, 1, k - 1)
                 minute == SubSeq(timeStr, k + 1, Len(timeStr))
             IN  IF (matchesUpToNineteen(hour) \/ matchesTwenties(hour))
                        /\ matchesMinute(minute)
                 THEN [matched |-> TRUE, hour |-> hour, minute |-> minute]
                 ELSE [matched |-> FALSE]

parseTimeToMinutes(timeStr) ==
    LET match == exec(timeStr)
    IN  IF ~match.matched
        THEN Threw("Invalid time format")
        ELSE Returned(parseInt(match.hour) * 60 + parseInt(match.minute))

InitTempora ==
    /\ IdleClassifier
    /\ IdleEntry
    /\ \E n \in 0..MaxTimeLen :
            call \in [fn : {"parseTimeToMinutes"}, timeStr : TimeStringsOfLen(n)]
    /\ ret = [status |-> "none"]

ParseTimeToMinutes ==
    /\ call.fn = "parseTimeToMinutes"
    /\ ret.status = "none"
    /\ ret' = parseTimeToMinutes(call.timeStr)
    /\ UNCHANGED <<call, classifierVars, entryVars>>

NextTempora == ParseTimeToMinutes

SpecTempora == InitTempora /\ [][NextTempora]_vars


(***************************************************************************)
(* The Clockwork Town of Tempora: calculateMinuteDifference.               *)
(*                                                                         *)
(* Both arguments are parsed inside one try block; the catch logs the      *)
(* message and returns null.  A caller compares a village clock with the   *)
(* grand clock and may then ask the question the other way round:          *)
(* call.swapped tells that it did, call.before is what the first call      *)
(* returned.                                                               *)
(***************************************************************************)
ClockTexts ==
    { <<a, b, ":", c, d>> : a \in {"0", "1", "2"}, b \in {"0", "4", "5"},
                            c \in {"0", "4", "5", "6"}, d \in {"0", "5", "9"} }
    \cup { <<"9", ":", "0", "5">>, <<"b", "a", "d">>, <<>> }

calculateMinuteDifferenceReversed(clockTime, grandClockTime) ==
    LET clockMinutes == parseTimeToMinutes(clockTime)
        grandMinutes == parseTimeToMinutes(grandClockTime)
    IN  IF clockMinutes.status = "threw" \/ grandMinutes.status = "threw"
        THEN [status |-> "returned", value |-> Null, logged |-> <<"Invalid time format">>]
        ELSE [status |-> "returned",
              value |-> Num(grandMinutes.value - clockMinutes.value), logged |-> <<>>]

calculateMinuteDifferenceUncaught(clockTime, grandClockTime) ==
    LET clockMinutes == parseTimeToMinutes(clockTime)
        grandMinutes == parseTimeToMinutes(grandClockTime)
    IN  IF clockMinutes.status = "threw" \/ grandMinutes.status = "threw"
        THEN [status |-> "threw", error |-> "Invalid time format", logged |-> <<>>]
        ELSE [status |-> "returned",
              value |-> Num(clockMinutes.value - grandMinutes.value), logged |-> <<>>]

calculateMinuteDifference(clockTime, grandClockTime) ==
    LET clockMinutes == parseTimeToMinutes(clockTime)
        grandMinutes == parseTimeToMinutes(grandClockTime)
    IN  IF clockMinutes.status = "threw" \/ grandMinutes.status = "threw"
        THEN [status |-> "returned", value |-> Null, logged |-> <<"Invalid time format">>]
        ELSE [status |-> "returned",
              value |-> Num(clockMinutes.value - grandMinutes.value), logged |-> <<>>]

InitDifference ==
    /\ IdleClassifier
    /\ IdleEntry
    /\ call \in [fn : {"calculateMinuteDifference"},
                 clockTime : ClockTexts, grandClockTime : ClockTexts,
                 swapped : {FALSE}, before : {Null}]
    /\ ret = [status |-> "none"]

CalculateMinuteDifference ==
    /\ call.fn = "calculateMinuteDifference"
    /\ ret.status = "none"
    /\ ret' = calculateMinuteDifference(call.clockTime, call.grandClockTime)
    /\ UNCHANGED <<call, classifierVars, entryVars>>

CalculateMinuteDifferenceSwapped ==
    /\ call.fn = "calculateMinuteDifference"
    /\ ret.status = "returned"
    /\ ~call.swapped
    /\ call' = [call EXCEPT !.clockTime = call.grandClockTime,
                            !.grandClockTime = call.clockTime,
                            !.swapped = TRUE,
                            !.before = ret.value]
    /\ ret' = calculateMinuteDifference(call.grandClockTime, call.clockTime)
    /\ UNCHANGED <<classifierVars, entryVars>>

NextDifference ==
    \/ CalculateMinuteDifference
    \/ CalculateMinuteDifferenceSwapped

SpecDifference == InitDifference /\ [][NextDifference]_vars


(***************************************************************************)
(* createCustomSystem and loadSystemFromFile: both build a system object,  *)
(* hand it to validateStarSystem and return either                         *)
(* {success: true, system: validatedSystem} or {success: false, errors}.   *)
(* loadSystemFromFile takes the object from JSON.parse of the file's text; *)
(* a file that cannot be read, text that is not JSON, and a JSON value     *)
(* whose properties cannot be read (null) end in the catch, which returns  *)
(* {success: false, error: message}.  JSON has no NaN.                     *)
(***************************************************************************)
\* validation.isValid ? {success: true, system} : {success: false, errors}
successOrErrors(validation) ==
    IF validation.isValid
    THEN [success |-> TRUE, system |-> validation.validatedSystem]
    ELSE [success |-> FALSE, errors |-> validation.errors]

createCustomSystem(systemName, planetData) ==
    successOrErrors(validateStarSystem([name |-> systemName, planets |-> planetData]))

\* what JSON text can hold of a planet: no NaN
JsonPlanetObjects == {planet \in SystemPlanetObjects : planet.distance.kind # "NaN"}

\* what fs.readFile and JSON.parse make of the file
FileContents(maxPlanets) ==
    {[kind |-> "unreadable"], [kind |-> "malformed"], [kind |-> "json", value |-> Null]}
    \cup [ kind : {"json"},
           value : [ name : {Str("Custom"), Str(" ")},
                     planets : {Undefined} \cup
                               {[kind |-> "array", items |-> q] :
                                   q \in UNION {ObjectSeqsOfLen(JsonPlanetObjects, n) :
                                                    n \in 0..maxPlanets}} ] ]

loadSystemFromFile(content) ==
    IF content.kind = "unreadable" THEN [success |-> FALSE, error |-> "ENOENT"]
    ELSE IF content.kind = "malformed" THEN [success |-> FALSE, error |-> "SyntaxError"]
    ELSE IF content.value = Null THEN [success |-> FALSE, error |-> "TypeError"]
    ELSE successOrErrors(validateStarSystem(content.value))

InitCustomSystem ==
    /\ IdleClassifier
    /\ IdleEntry
    /\ \/ \E system \in Systems(MaxPlanets) :
              call = [fn |-> "createCustomSystem",
                      systemName |-> system.name,
                      planetData |-> system.planets]
       \/ call \in [fn : {"loadSystemFromFile"}, content : FileContents(MaxPlanets)]
    /\ ret = [status |-> "none"]

CreateCustomSystem ==
    /\ call.fn = "createCustomSystem"
    /\ ret.status = "none"
    /\ ret' = Returned(createCustomSystem(call.systemName, call.planetData))
    /\ UNCHANGED <<call, classifierVars, entryVars>>

LoadSystemFromFile ==
    /\ call.fn = "loadSystemFromFile"
    /\ ret.status = "none"
    /\ ret' = Returned(loadSystemFromFile(call.content))
    /\ UNCHANGED <<call, classifierVars, entryVars>>

NextCustomSystem ==
    \/ CreateCustomSystem
    \/ LoadSystemFromFile

SpecCustomSystem == InitCustomSystem /\ [][NextCustomSystem]_vars

(***************************************************************************)
(* Vocabulary of the properties                                            *)
(***************************************************************************)
Labels == {"Full", "Partial", "None", "None (Multiple Shadows)"}

BodyOf(r) == [name |-> r.name, distance |-> r.distance, size |-> r.size]
BodiesOf(rs) == [k \in 1..Len(rs) |-> BodyOf(rs[k])]

Count(seq, x) == Cardinality({k \in 1..Len(seq) : seq[k] = x})
Range(seq) == {seq[k] : k \in 1..Len(seq)}

\* number of bodies placed before position k of an output whose size is strictly greater
LargerBefore(rs, k) == Cardinality({j \in 1..(k - 1) : rs[j].size > rs[k].size})

MinDistanceAt(ps, k) == \A j \in 1..Len(ps) : ps[k].distance <= ps[j].distance
FirstMinDistance(ps) ==
    CHOOSE k \in 1..Len(ps) :
        MinDistanceAt(ps, k) /\ \A j \in 1..(k - 1) : ~MinDistanceAt(ps, j)

Canonical == Len(planets) = 4 /\ Range(planets) = Range(defaultLumoriaPlanets)
CanonicalLight(name) ==
    CASE name = "Mercuria" -> "Full"
      [] name = "Venusia"  -> "Partial"
      [] name = "Earthia"  -> "Partial"
      [] name = "Marsia"   -> "None (Multiple Shadows)"

HasResults == "results" \in returned
HasSciResults == "sciResults" \in returned
HasPrevious == "previous" \in returned

(***************************************************************************)
(* C1: calculateLightIntensity labels the body at sorted position i        *)
(* 'Full' if i = 0, otherwise 'None' if exactly one body before it is      *)
(* strictly larger, 'None (Multiple Shadows)' if more than one is, and     *)
(* 'Partial' if none is; the label is one of these four strings.           *)
(***************************************************************************)
C1_LabelRule ==
    HasResults =>
        \A k \in 1..Len(results) :
            /\ results[k].light \in Labels
            /\ results[k].light =
                   IF k = 1 THEN "Full"
                   ELSE IF LargerBefore(results, k) = 1 THEN "None"
                   ELSE IF LargerBefore(results, k) > 1 THEN "None (Multiple Shadows)"
                   ELSE "Partial"

C1_Witness ==
    /\ HasResults
    /\ \E i, j, k \in 1..Len(results) :
          /\ results[i].light = "Full"
          /\ results[j].light = "None"
          /\ results[k].light = "None (Multiple Shadows)"

(***************************************************************************)
(* C2: the output of calculateLightIntensity has exactly one result per    *)
(* input body (same length, same multiset of name/distance/size) and is    *)
(* in ascending order of distance, whatever the order of the input.        *)
(***************************************************************************)
C2_PermutationSorted ==
    HasResults =>
        /\ Len(results) = Len(planets)
        /\ \A b \in Range(planets) \cup Range(BodiesOf(results)) :
               Count(BodiesOf(results), b) = Count(planets, b)
        /\ \A i, j \in 1..Len(results) :
               i < j => results[i].distance <= results[j].distance

C2_Witness ==
    /\ HasResults
    /\ Len(planets) = 3
    /\ planets[1].distance > planets[2].distance
    /\ planets[2].distance > planets[3].distance
    /\ results[1].distance < results[3].distance

(***************************************************************************)
(* C3 as stated: every body whose distance is the minimum distance of the  *)
(* input is labelled 'Full' by both classifiers.                           *)
(***************************************************************************)
C3_EveryMinDistanceFull ==
    /\ HasResults =>
          \A k \in 1..Len(results) :
              MinDistanceAt(results, k) => results[k].light = "Full"
    /\ HasSciResults =>
          \A k \in 1..Len(sciResults) :
              MinDistanceAt(sciResults, k) => sciResults[k].light = "Full"

(***************************************************************************)
(* C3 amended: for a non-empty input, both classifiers label 'Full' the    *)
(* body at sorted position 0, which is the first, in input order, of the   *)
(* bodies at the minimum distance, and label no other body 'Full'; hence   *)
(* a body that alone has the minimum distance is 'Full', and a single-body *)
(* input yields one result labelled 'Full'.                                *)
(***************************************************************************)
FirstIsFull(rs) ==
    Len(rs) > 0 =>
        /\ rs[1].light = "Full"
        /\ BodyOf(rs[1]) = planets[FirstMinDistance(planets)]
        /\ \A k \in 2..Len(rs) : rs[k].light # "Full"

C3_FirstMinDistanceFull ==
    /\ HasResults => Len(results) = Len(planets) /\ FirstIsFull(results)
    /\ HasSciResults => Len(sciResults) = Len(planets) /\ FirstIsFull(sciResults)

C3_Witness ==
    /\ HasResults /\ HasSciResults
    /\ Len(planets) = 3
    /\ planets[1].distance > planets[2].distance
    /\ planets[2].distance = planets[3].distance
    /\ planets[2] # planets[3]
    /\ results[2].light # "Full"
    /\ sciResults[2].light # "Full"

(***************************************************************************)
(* C4: for the canonical four-body system supplied in any order, both      *)
(* classifiers yield Mercuria = Full, Venusia = Partial, Earthia =         *)
(* Partial, Marsia = None (Multiple Shadows).                              *)
(***************************************************************************)
C4_CanonicalSystem ==
    Canonical =>
        /\ HasResults =>
              /\ Len(results) = 4
              /\ \A k \in 1..Len(results) :
                     results[k].light = CanonicalLight(results[k].name)
        /\ HasSciResults =>
              /\ Len(sciResults) = 4
              /\ \A k \in 1..Len(sciResults) :
                     sciResults[k].light = CanonicalLight(sciResults[k].name)

C4_Witness ==
    /\ planets = defaultLumoriaPlanets
    /\ HasResults /\ HasSciResults
    /\ results[4].name = "Marsia"
    /\ sciResults[3].name = "Earthia"

(***************************************************************************)
(* C5: equal size never counts as larger: a body with at least one body    *)
(* before it in the sorted order, all of size less than or equal to its    *)
(* own, is labelled 'Partial'; of two bodies of equal size at different    *)
(* distances the nearer is 'Full' and the farther is 'Partial'.            *)
(***************************************************************************)
C5_EqualSizeNotLarger ==
    HasResults =>
        /\ \A k \in 2..Len(results) :
               (\A j \in 1..(k - 1) : results[j].size <= results[k].size)
                   => results[k].light = "Partial"
        /\ ( /\ Len(planets) = 2
             /\ planets[1].size = planets[2].size
             /\ planets[1].distance # planets[2].distance )
               => /\ results[1].light = "Full"
                  /\ results[2].light = "Partial"
                  /\ results[1].distance < results[2].distance

C5_Witness ==
    /\ HasResults
    /\ Len(planets) = 2
    /\ planets[1].size = planets[2].size
    /\ planets[1].distance > planets[2].distance
    /\ results[2].light = "Partial"

(***************************************************************************)
(* C6: on the same input, calculateScientificLightIntensity returns the    *)
(* bodies in the same order and with the same label and shadowCount as     *)
(* calculateLightIntensity; the label follows the discrete rule on         *)
(* shadowCount whatever the fractional light intensity is.                 *)
(***************************************************************************)
C6_ScientificAgrees ==
    (HasResults /\ HasSciResults) =>
        /\ Len(sciResults) = Len(results)
        /\ \A k \in 1..Len(results) :
               /\ BodyOf(sciResults[k]) = BodyOf(results[k])
               /\ sciResults[k].light = results[k].light
               /\ sciResults[k].shadowCount = results[k].shadowCount

C6_Witness ==
    /\ HasResults /\ HasSciResults
    /\ Len(results) = 3
    /\ \E k \in 2..3 : sciResults[k].light = "Partial"
                        /\ sciResults[k].scientificLightIntensity = 10
    /\ \E k \in 2..3 : sciResults[k].light = "None"
                        /\ sciResults[k].scientificLightIntensity > 0

Prefix(seq, k) == SubSeq(seq, 1, k)

AtDistance(bodies, d) == SelectSeq(bodies, LAMBDA b : b.distance = d)

C9_TiesKeepInputOrder ==
    /\ HasResults =>
          \A d \in {planets[k].distance : k \in 1..Len(planets)} :
              AtDistance(BodiesOf(results), d) = AtDistance(planets, d)
    /\ HasSciResults =>
          \A d \in {planets[k].distance : k \in 1..Len(planets)} :
              AtDistance(BodiesOf(sciResults), d) = AtDistance(planets, d)

C9_Witness ==
    /\ HasResults /\ HasSciResults
    /\ Len(planets) = 3
    /\ planets[1].distance = planets[3].distance
    /\ planets[1] # planets[3]
    /\ planets[2].distance < planets[1].distance
    /\ BodyOf(results[2]) = planets[1]
    /\ BodyOf(results[3]) = planets[3]

(***************************************************************************)
(* C10: calculateLightIntensity called with an empty list returns an       *)
(* empty list.                                                             *)
(***************************************************************************)
C10_EmptyInEmptyOut ==
    (HasResults /\ planets = <<>>) => results = <<>>

C10_Witness ==
    /\ HasResults
    /\ planets = <<>>
    /\ Len(results) = 0

(***************************************************************************)
(* C11: called with null or with anything that is not a list,              *)
(* calculateLightIntensity and calculateLightIntensities raise an error    *)
(* and never return a result.                                              *)
(***************************************************************************)
C11_NonListFailsFast ==
    (call.fn \in {"calculateLightIntensity", "calculateLightIntensities"}
        /\ call.arg.kind # "array" /\ ret.status # "none")
            => ret.status = "threw"

\* what the validation rules ask of a field, stated on the value itself
IsPositiveNumber(x) == x.kind = "number" /\ x.v > 0

IsNonEmptyName(x) == x.kind = "string" /\ trim(x.s) # ""

FailedFieldChecks(planet) ==
    {c \in {"name", "distance", "size", "distanceLimit", "sizeLimit"} :
        \/ c = "name" /\ ~IsNonEmptyName(planet.name)
        \/ c = "distance" /\ ~IsPositiveNumber(planet.distance)
        \/ c = "size" /\ ~IsPositiveNumber(planet.size)
        \/ c = "distanceLimit" /\ greaterThan(planet.distance, distanceLimit, AU)
        \/ c = "sizeLimit" /\ greaterThan(planet.size, sizeLimit, 1)}

ValidatePlanetReturned == call.fn = "validatePlanet" /\ ret.status = "returned"

ValidateStarSystemReturned ==
    /\ call.fn = "validateStarSystem" /\ ret.status = "returned"
    /\ call.arg.planets.kind = "array"

HasErrorText(errors, text) == \E k \in 1..Len(errors) : errors[k].text = text

InputDuplicateNames(items) ==
    \E i, j \in 1..Len(items) :
        /\ i # j
        /\ IsNonEmptyName(items[i].name) /\ IsNonEmptyName(items[j].name)
        /\ toLowerCase(trim(items[i].name.s)) = toLowerCase(trim(items[j].name.s))

InputDuplicateDistances(items) ==
    \E i, j \in 1..Len(items) :
        /\ i # j
        /\ IsPositiveNumber(items[i].distance) /\ IsPositiveNumber(items[j].distance)
        /\ items[i].distance.v - items[j].distance.v < sameOrbitThreshold
        /\ items[j].distance.v - items[i].distance.v < sameOrbitThreshold

(***************************************************************************)
(* C12: validation reports every violation in one pass.  validatePlanet's  *)
(* error list has one entry for every failed field check;                  *)
(* validateStarSystem's error list has an entry for every invalid planet,  *)
(* and reports duplicate names and duplicate distances whenever they are   *)
(* present among the input planets.                                        *)
(***************************************************************************)
C12_AllViolationsReported ==
    /\ ValidatePlanetReturned =>
            Len(ret.value.errors) = Cardinality(FailedFieldChecks(call.arg))
    /\ ValidateStarSystemReturned =>
            LET items == call.arg.planets.items
                errors == ret.value.errors
            IN  /\ \A k \in 1..Len(items) :
                        FailedFieldChecks(items[k]) # {} =>
                            \E e \in 1..Len(errors) :
                                errors[e].text = "Planet" /\ errors[e].index = k
                /\ InputDuplicateNames(items) =>
                        HasErrorText(errors, "Duplicate planet names found")
                /\ InputDuplicateDistances(items) =>
                        HasErrorText(errors,
                            "Multiple planets cannot occupy the same orbital distance")

(***************************************************************************)
(* C13: a body whose distance or size is not a positive number is rejected *)
(* by validatePlanet with an error naming the offending field, and is      *)
(* never among validateStarSystem's validated planets.                     *)
(***************************************************************************)
C13_NonPositiveRejected ==
    /\ ValidatePlanetReturned =>
            /\ ~IsPositiveNumber(call.arg.distance) =>
                    /\ ~ret.value.isValid
                    /\ \E k \in 1..Len(ret.value.errors) :
                            ret.value.errors[k] = DistancePositive
            /\ ~IsPositiveNumber(call.arg.size) =>
                    /\ ~ret.value.isValid
                    /\ \E k \in 1..Len(ret.value.errors) :
                            ret.value.errors[k] = SizePositive
    /\ ValidateStarSystemReturned =>
            \A k \in 1..Len(ret.value.validatedSystem.planets) :
                /\ IsPositiveNumber(ret.value.validatedSystem.planets[k].distance)
                /\ IsPositiveNumber(ret.value.validatedSystem.planets[k].size)

RECURSIVE CasterIntensities(_, _)
CasterIntensities(details, n) ==
    IF n = 0 THEN 0 ELSE CasterIntensities(details, n - 1) + details[n].intensity

ClampedAtOne(tenths) == IF tenths > 10 THEN 10 ELSE tenths

(***************************************************************************)
(* C14: for every body in the output of calculateScientificLightIntensity, *)
(* totalShadowIntensity is the sum of the contributing casters'            *)
(* intensities clamped to at most 1.0, scientificLightIntensity is 1 minus *)
(* that clamped total, and both lie in [0, 1] (intensities in tenths).     *)
(***************************************************************************)
C14_ClampedShadowSum ==
    HasSciResults =>
        \A k \in 1..Len(sciResults) :
            LET r == sciResults[k]
                total == ClampedAtOne(
                             CasterIntensities(r.shadowDetails, Len(r.shadowDetails)))
            IN  /\ r.totalShadowIntensity = total
                /\ r.scientificLightIntensity = 10 - total
                /\ r.totalShadowIntensity \in 0..10
                /\ r.scientificLightIntensity \in 0..10

C14_Witness ==
    /\ HasSciResults
    /\ Len(sciResults) = 3
    /\ Len(sciResults[2].shadowDetails) = 1
    /\ sciResults[2].totalShadowIntensity = 6
    /\ sciResults[2].scientificLightIntensity = 4
    /\ Len(sciResults[3].shadowDetails) = 2
    /\ CasterIntensities(sciResults[3].shadowDetails, 2) > 10
    /\ sciResults[3].totalShadowIntensity = 10
    /\ sciResults[3].scientificLightIntensity = 0

InteractionReturned ==
    /\ call.fn = "calculateShadowInteraction"
    /\ ret.status = "returned"
    /\ call.shadowCaster.distance < call.shadowReceiver.distance

\* the caster's size as a percentage of the receiver's, compared without division
AtLeastPercent(pct) == 100 * call.shadowCaster.size >= pct * call.shadowReceiver.size
MoreThanPercent(pct) == 100 * call.shadowCaster.size > pct * call.shadowReceiver.size

Tier(type, tenths) == ret.value.hasShadow /\ ret.value.type = type /\ ret.value.intensity = tenths

(***************************************************************************)
(* C15 as stated: for a caster strictly closer than the receiver the       *)
(* intensity is 1.0 ('complete') when the caster's size is at least 110%   *)
(* of the receiver's, 0.6 ('partial') when it is within plus or minus 10%, *)
(* and 0.3 ('minimal') when it is smaller than that.                       *)
(***************************************************************************)
C15_TiersInclusive ==
    InteractionReturned =>
        /\ AtLeastPercent(110) => Tier("complete", 10)
        /\ (AtLeastPercent(90) /\ ~AtLeastPercent(110)) => Tier("partial", 6)
        /\ ~AtLeastPercent(90) => Tier("minimal", 3)

(***************************************************************************)
(* C15 amended: the tiers are cut by strict comparisons.  The intensity is *)
(* 1.0 ('complete') when the caster's size is more than 110% of the        *)
(* receiver's, 0.6 ('partial') when it is more than 90% and at most 110%,  *)
(* and 0.3 ('minimal') when it is at most 90%.                             *)
(***************************************************************************)
C15_TiersStrict ==
    InteractionReturned =>
        /\ MoreThanPercent(110) => Tier("complete", 10)
        /\ (MoreThanPercent(90) /\ ~MoreThanPercent(110)) => Tier("partial", 6)
        /\ ~MoreThanPercent(90) => Tier("minimal", 3)

C15_Witness ==
    /\ InteractionReturned
    /\ call.shadowCaster.size = 11
    /\ call.shadowReceiver.size = 10
    /\ Tier("partial", 6)

AnalysisEnded == call.fn = "analyzeStarSystem" /\ ret.status # "none"

SaveEnded == call.fn = "saveSVGToFile" /\ ret.status # "none"

(***************************************************************************)
(* C16: a file-write failure never discards the classification.  Whatever  *)
(* writes fail, analyzeStarSystem returns a result whose planets field     *)
(* holds one classified entry for every body of the system, a failed write *)
(* is logged, reportPath is set exactly when the report was written, a     *)
(* failed SVG write leaves null as its path, and saveSVGToFile returns     *)
(* null instead of throwing.                                               *)
(***************************************************************************)
C16_WriteFailureKeepsResult ==
    /\ AnalysisEnded =>
            /\ ret.status = "returned"
            /\ Len(ret.value.planets) = Len(call.system.planets)
            /\ Range(BodiesOf(ret.value.planets)) = Range(call.system.planets)
            /\ \A k \in 1..Len(ret.value.planets) : ret.value.planets[k].light \in Labels
            /\ (ret.value.reportPath.kind = "string") <=> (ret.disk.report = "written")
            /\ ret.disk.report = "failed" =>
                    \E k \in 1..Len(ret.logged) : ret.logged[k] = "Error saving report"
            /\ ret.disk.static = "failed" => ret.value.visualizations.staticPath = Null
            /\ ret.disk.animated = "failed" => ret.value.visualizations.animatedPath = Null
    /\ SaveEnded =>
            /\ ret.status = "returned"
            /\ ret.disk.static = "failed" => ret.value = Null

C16_Witness ==
    /\ AnalysisEnded
    /\ ret.status = "returned"
    /\ ret.disk = [static |-> "failed", animated |-> "written", report |-> "failed"]
    /\ Len(ret.value.planets) = 2
    /\ ret.value.planets[2].light = "None"
    /\ ret.value.reportPath = Undefined

DiameterOf(p) == IF entry.fn = "promptPlanets" THEN p.diameter ELSE p.size

(***************************************************************************)
(* C17: in every interactive entry loop (promptPlanets,                    *)
(* getCustomPlanetData, interactiveSystemCreator), after any sequence of   *)
(* answers every planet in the accumulated list has a numeric distance > 0 *)
(* and a numeric size/diameter > 0.                                        *)
(***************************************************************************)
C17_EnteredArePositiveNumbers ==
    \A k \in 1..Len(entered) :
        /\ IsPositiveNumber(entered[k].distance)
        /\ IsPositiveNumber(DiameterOf(entered[k]))

\* the loops behind promptPlanets and behind main's call of getCustomPlanetData
InEntryLoop == entry.fn \in {"promptPlanets", "getCustomPlanetData"}

BlankNameEntered == entry.at = "name" /\ trim(entry'.answer) = ""

EndsOnBlankName ==
    /\ (entry.at \in {"name", "distance", "diameter"} /\ entry'.at = "done")
            => BlankNameEntered
    /\ BlankNameEntered => entry'.at = "done"

AcceptsInEntryOrder ==
    \/ entered' = entered
    \/ /\ entry.at = "diameter"
       /\ Len(entered') = Len(entered) + 1
       /\ SubSeq(entered', 1, Len(entered)) = entered
       /\ entered'[Len(entered')].name = Str(trim(entry.name))
       /\ entered'[Len(entered')].distance = entry.distance

YieldsEnteredOrDefault ==
    (entry.at # "done" /\ entry'.at = "done") =>
        /\ resolved'.status = "resolved"
        /\ IF Len(entered) = 0
           THEN /\ resolved'.source = "default"
                /\ resolved'.planets = IF entry.fn = "promptPlanets"
                                       THEN defaultPlanets
                                       ELSE defaultLumoriaPlanets
           ELSE /\ resolved'.source = "custom"
                /\ resolved'.planets = entered

RejectedDistance ==
    /\ entry.fn = "promptPlanets"
    /\ entry.at = "distance"
    /\ ~IsPositiveNumber(parseFloat(Str(entry'.answer), AU))
    /\ entry'.at = "name"
    /\ entry'.said = "Invalid distance. Try again."
    /\ entered' = entered

(***************************************************************************)
(* C18 as stated: interactive entry prompts name, then distance, then      *)
(* diameter, repeatedly, and ends exactly when an empty (whitespace-only)  *)
(* name is entered; it then yields the planets accepted so far in entry    *)
(* order, and falls back to the default planet list when no planet was     *)
(* accepted or custom entry was declined.                                  *)
(***************************************************************************)
C18_NameDistanceDiameter ==
    [][ (InEntryLoop /\ entry' # entry) =>
            /\ (entry.at = "name" /\ ~BlankNameEntered) => entry'.at = "distance"
            /\ entry.at = "distance" => entry'.at = "diameter"
            /\ entry.at = "diameter" => entry'.at = "name"
            /\ EndsOnBlankName
            /\ AcceptsInEntryOrder
            /\ YieldsEnteredOrDefault ]_vars

(***************************************************************************)
(* C18 amended: as stated, except that promptPlanets, on a distance answer *)
(* that is not a positive number, reports it and returns to the name       *)
(* prompt of the same planet without asking for the diameter.              *)
(***************************************************************************)
C18_NameDistanceDiameterUnlessRejected ==
    [][ (InEntryLoop /\ entry' # entry) =>
            /\ (entry.at = "name" /\ ~BlankNameEntered) => entry'.at = "distance"
            /\ entry.at = "distance" => (entry'.at = "diameter" \/ RejectedDistance)
            /\ entry.at = "diameter" => entry'.at = "name"
            /\ EndsOnBlankName
            /\ AcceptsInEntryOrder
            /\ YieldsEnteredOrDefault ]_vars

C18_Witness ==
    /\ entry.fn = "promptPlanets"
    /\ entry.at = "done"
    /\ entry.answer = " "
    /\ resolved.status = "resolved"
    /\ resolved.source = "custom"
    /\ Len(entered) = 2
    /\ resolved.planets = entered
    /\ entered[1].distance.v > entered[2].distance.v

IsSortedByDistance(ps) ==
    \A i, j \in 1..Len(ps) : i < j => ps[i].distance <= ps[j].distance

(***************************************************************************)
(* C19: the classifiers have no side effects on their input.  Across every *)
(* call of calculateLightIntensity, calculateScientificLightIntensity or   *)
(* calculateShadows the list handed over still holds the same bodies with  *)
(* the same field values in the same order.                                *)
(***************************************************************************)
C19_InputUntouched == [][planets' = planets]_vars

C19_Witness ==
    /\ returned = {"results", "sciResults", "shadows"}
    /\ planets = STAR_SYSTEM_TEMPLATES.lumoria.planets
    /\ ~IsSortedByDistance(planets)
    /\ Len(results) = 4 /\ Len(sciResults) = 4 /\ Len(shadows) = 4
    /\ shadows[2].name = "Venusia"

\* H:MM or HH:MM read as numbers: the digits before and after the colon
ClockHour(t) == IF Len(t) = 4 THEN DigitValue(t[1])
                ELSE 10 * DigitValue(t[1]) + DigitValue(t[2])

ClockMinute(t) == 10 * DigitValue(t[Len(t) - 1]) + DigitValue(t[Len(t)])

IsClockTime(t) ==
    /\ Len(t) \in {4, 5}
    /\ t[Len(t) - 2] = ":"
    /\ \A k \in 1..Len(t) : k # Len(t) - 2 => IsDigit(t[k])
    /\ ClockHour(t) \in 0..23
    /\ ClockMinute(t) \in 0..59

ParseEnded == call.fn = "parseTimeToMinutes" /\ ret.status # "none"

(***************************************************************************)
(* C20: parseTimeToMinutes(s) succeeds exactly for strings of the form     *)
(* H:MM or HH:MM with hour 0..23 and minute 00..59, returning              *)
(* 60*hour + minute, a value in 0..1439; for every other string it throws. *)
(***************************************************************************)
C20_ParsesExactlyClockTimes ==
    ParseEnded =>
        IF IsClockTime(call.timeStr)
        THEN /\ ret.status = "returned"
             /\ ret.value = 60 * ClockHour(call.timeStr) + ClockMinute(call.timeStr)
             /\ ret.value \in 0..1439
        ELSE ret.status = "threw"

C20_Witness ==
    /\ ParseEnded
    /\ call.timeStr = <<"2", "3", ":", "5", "9">>
    /\ ret = Returned(1439)

MinutesOf(t) == 60 * ClockHour(t) + ClockMinute(t)

DifferenceEnded == call.fn = "calculateMinuteDifference" /\ ret.status # "none"

BothClockTimes == IsClockTime(call.clockTime) /\ IsClockTime(call.grandClockTime)

(***************************************************************************)
(* C21: for two valid time strings calculateMinuteDifference(clock, grand) *)
(* returns minutes(clock) - minutes(grand): positive when the village      *)
(* clock is ahead, negative when it is behind, 0 when the two are equal;   *)
(* the call with the arguments swapped returns the negated value.          *)
(***************************************************************************)
C21_SignedDifference ==
    (DifferenceEnded /\ BothClockTimes) =>
        /\ ret.status = "returned"
        /\ ret.value.kind = "number"
        /\ ret.value.v = MinutesOf(call.clockTime) - MinutesOf(call.grandClockTime)
        /\ (ret.value.v > 0) <=> (MinutesOf(call.clockTime) > MinutesOf(call.grandClockTime))
        /\ (ret.value.v < 0) <=> (MinutesOf(call.clockTime) < MinutesOf(call.grandClockTime))
        /\ (ret.value.v = 0) <=> (MinutesOf(call.clockTime) = MinutesOf(call.grandClockTime))
        /\ call.swapped => (call.before.kind = "number" /\ ret.value.v = 0 - call.before.v)

C21_Witness ==
    /\ DifferenceEnded
    /\ call.swapped
    /\ call.clockTime = <<"1", "5", ":", "0", "0">>
    /\ call.grandClockTime = <<"1", "4", ":", "4", "5">>
    /\ call.before = Num(0 - 15)
    /\ ret.value = Num(15)

(***************************************************************************)
(* C22: calculateMinuteDifference never throws; it returns null when       *)
(* either argument is not a valid time string, and a number only when both *)
(* are valid.                                                              *)
(***************************************************************************)
C22_NullOnInvalid ==
    DifferenceEnded =>
        /\ ret.status = "returned"
        /\ ~BothClockTimes => ret.value = Null
        /\ ret.value.kind = "number" => BothClockTimes

C22_Witness ==
    /\ DifferenceEnded
    /\ call.clockTime = <<"b", "a", "d">>
    /\ call.grandClockTime = <<"1", "5", ":", "0", "0">>
    /\ ret.status = "returned"
    /\ ret.value = Null

InteractionEnded == call.fn = "calculateShadowInteraction" /\ ret.status = "returned"

(***************************************************************************)
(* C23: calculateShadowInteraction reports no shadow (hasShadow false,     *)
(* intensity 0) whenever the caster's distance is greater than or equal to *)
(* the receiver's, and hasShadow true whenever the caster is strictly      *)
(* closer.                                                                 *)
(***************************************************************************)
C23_ShadowOnlyFromCloser ==
    InteractionEnded =>
        IF call.shadowCaster.distance >= call.shadowReceiver.distance
        THEN ~ret.value.hasShadow /\ ret.value.intensity = 0
        ELSE ret.value.hasShadow /\ ret.value.intensity > 0

C23_Witness ==
    /\ InteractionEnded
    /\ call.shadowCaster.distance = call.shadowReceiver.distance
    /\ call.shadowCaster.size > call.shadowReceiver.size
    /\ ~ret.value.hasShadow
    /\ ret.value.intensity = 0

HasShadows == "shadows" \in returned

\* the bodies calculateShadows calls closer: those before the body in distance order
CloserCount(k) == k - 1

\* the template systems' planet lists, the inputs a result is compared with
TemplateInputs ==
    { STAR_SYSTEM_TEMPLATES[t].planets : t \in DOMAIN STAR_SYSTEM_TEMPLATES }

(***************************************************************************)
(* C24 as stated: calculateShadows classifies purely by the number of      *)
(* closer bodies regardless of their sizes: a body with the same number of *)
(* closer bodies in another input gets the same shadowType (0 closer ->    *)
(* Full, more than one closer -> None (Multiple Shadows)).                 *)
(***************************************************************************)
C24_SameCountSameType ==
    HasShadows =>
        \A k \in 1..Len(shadows) :
            /\ CloserCount(k) = 0 => shadows[k].shadowType = "Full"
            /\ CloserCount(k) > 1 => shadows[k].shadowType = "None (Multiple Shadows)"
            /\ \A other \in TemplateInputs :
                    k <= Len(other) =>
                        calculateShadows(other)[k].shadowType = shadows[k].shadowType

(***************************************************************************)
(* C24 amended: calculateShadows gives Full to a body with no closer body  *)
(* and None (Multiple Shadows) to a body with more than one, whatever the  *)
(* sizes; for a body with exactly one closer body the size decides: None   *)
(* when the closer body is strictly larger, Partial otherwise.             *)
(***************************************************************************)
C24_CountThenSize ==
    HasShadows =>
        \A k \in 1..Len(shadows) :
            /\ CloserCount(k) = 0 => shadows[k].shadowType = "Full"
            /\ CloserCount(k) > 1 => shadows[k].shadowType = "None (Multiple Shadows)"
            /\ CloserCount(k) = 1 =>
                    shadows[k].shadowType =
                        IF shadows[1].size > shadows[k].size THEN "None" ELSE "Partial"
            /\ \A other \in TemplateInputs :
                    (k <= Len(other) /\ CloserCount(k) # 1) =>
                        calculateShadows(other)[k].shadowType = shadows[k].shadowType

C24_Witness ==
    /\ HasShadows
    /\ Len(shadows) = 2
    /\ shadows[1].shadowType = "Full"
    /\ shadows[1].size > shadows[2].size
    /\ shadows[2].shadowType = "None"
    /\ \E other \in TemplateInputs :
            calculateShadows(other)[2].shadowType = "Partial"

\* calculateShadows and calculateLightIntensity have both classified the input
BothRulesReturned == {"results", "shadows"} \subseteq returned

\* the closer bodies of the body at sorted position k that are strictly larger
LargerCloserCount(k) ==
    Cardinality({j \in 1..(k - 1) : results[j].size > results[k].size})

(***************************************************************************)
(* C25: calculateShadows and calculateLightIntensity give the same label   *)
(* to every body with at most one closer body, and give different labels   *)
(* exactly to the bodies with two or more closer bodies of which at most   *)
(* one is strictly larger.                                                 *)
(***************************************************************************)
C25_DisagreeOnlyOnMultiCloser ==
    BothRulesReturned =>
        /\ Len(shadows) = Len(results)
        /\ \A k \in 1..Len(results) :
              /\ shadows[k].name = results[k].name
              /\ CloserCount(k) <= 1 => shadows[k].shadowType = results[k].light
              /\ shadows[k].shadowType # results[k].light
                    <=> (CloserCount(k) >= 2 /\ LargerCloserCount(k) <= 1)

C25_Witness ==
    /\ BothRulesReturned
    /\ \E k \in 1..Len(results) :
          /\ CloserCount(k) >= 2
          /\ LargerCloserCount(k) <= 1
          /\ shadows[k].shadowType = "None (Multiple Shadows)"
          /\ results[k].light \in {"Partial", "None"}
    /\ \E k \in 1..Len(results) :
          /\ CloserCount(k) >= 2
          /\ LargerCloserCount(k) >= 2
          /\ shadows[k].shadowType = results[k].light

\* calculateLightIntensities returned for a list that is sorted by distance
IntensitiesOfSortedReturned ==
    /\ call.fn = "calculateLightIntensities"
    /\ call.arg.kind = "array"
    /\ IsSortedByDistance(call.arg.items)
    /\ ret.status = "returned"

(***************************************************************************)
(* C26: given planets sorted by distance, calculateLightIntensities gives  *)
(* 'None' exactly to the planets with no closer planet (so to the first),  *)
(* and 'None (Multiple Shadows)' to every planet with more than one closer *)
(* planet, whatever the sizes.                                             *)
(***************************************************************************)
C26_NoneExactlyWithoutCloser ==
    IntensitiesOfSortedReturned =>
        \A k \in 1..Len(ret.value) :
            /\ ret.value[k].shadow = ShadowType.NONE <=> ret.value[k].closerCount = 0
            /\ ret.value[k].closerCount = k - 1
            /\ ret.value[k].closerCount > 1 => ret.value[k].shadow = ShadowType.MULTI

\* closer bodies of the result at sorted position k (0-based index k - 1), by size
LargerInFront(k) == {j \in 1..(k - 1) : results[j].size > results[k].size}
NotLargerInFront(k) == {j \in 1..(k - 1) : results[j].size <= results[k].size}

(***************************************************************************)
(* C27: for every result of calculateLightIntensity at sorted position i,  *)
(* shadowCount equals largerPlanetsInFront, and largerPlanetsInFront +     *)
(* smallerPlanetsInFront = i, closer bodies of equal size counting as      *)
(* smaller, so that 0 <= shadowCount <= i.                                 *)
(***************************************************************************)
C27_CountsPartitionCloser ==
    HasResults =>
        \A k \in 1..Len(results) :
            LET i == k - 1
            IN  /\ results[k].shadowCount = results[k].largerPlanetsInFront
                /\ results[k].largerPlanetsInFront = Cardinality(LargerInFront(k))
                /\ results[k].smallerPlanetsInFront = Cardinality(NotLargerInFront(k))
                /\ results[k].largerPlanetsInFront + results[k].smallerPlanetsInFront = i
                /\ 0 <= results[k].shadowCount
                /\ results[k].shadowCount <= i

C27_Witness ==
    /\ HasResults
    /\ \E k \in 1..Len(results) :
          /\ k = 3
          /\ results[k].shadowCount = 1
          /\ results[k].smallerPlanetsInFront = 1
          /\ \E j \in 1..(k - 1) : results[j].size = results[k].size

\* the strictly larger bodies before sorted position k of the scientific output,
\* and those of them that are strictly closer to the star
SciLargerInFront(k) ==
    {j \in 1..(k - 1) : sciResults[j].size > sciResults[k].size}

SciLargerStrictlyCloser(k) ==
    {j \in SciLargerInFront(k) : sciResults[j].distance < sciResults[k].distance}

DetailTypes(k) ==
    {sciResults[k].shadowDetails[d].type : d \in 1..Len(sciResults[k].shadowDetails)}

(***************************************************************************)
(* C28 as stated: in the output of calculateScientificLightIntensity every *)
(* body labelled Full or Partial has scientificLightIntensity 1.0 and no   *)
(* shadowDetails, every body labelled None (Multiple Shadows) has          *)
(* scientificLightIntensity 0, the number of shadowDetails entries always  *)
(* equals shadowCount, and no entry has type minimal.                      *)
(***************************************************************************)
C28_DetailsMatchCount ==
    HasSciResults =>
        \A k \in 1..Len(sciResults) :
            /\ sciResults[k].light \in {"Full", "Partial"} =>
                  /\ sciResults[k].scientificLightIntensity = 10
                  /\ sciResults[k].shadowDetails = <<>>
            /\ sciResults[k].light = "None (Multiple Shadows)" =>
                  sciResults[k].scientificLightIntensity = 0
            /\ Len(sciResults[k].shadowDetails) = sciResults[k].shadowCount
            /\ "minimal" \notin DetailTypes(k)

(***************************************************************************)
(* C28 amended: shadowCount counts every strictly larger body in front,    *)
(* shadowDetails has one entry for each of them that is strictly closer    *)
(* (a larger body tied in distance casts nothing), so the number of        *)
(* entries is at most shadowCount and equals it when none is tied; Full    *)
(* and Partial bodies have scientificLightIntensity 1.0 and no entries, a  *)
(* None (Multiple Shadows) body has scientificLightIntensity 0 when at     *)
(* least two of its larger bodies are strictly closer, and no entry has    *)
(* type minimal.                                                           *)
(***************************************************************************)
C28_DetailsOfStrictlyCloser ==
    HasSciResults =>
        \A k \in 1..Len(sciResults) :
            /\ sciResults[k].light \in {"Full", "Partial"} =>
                  /\ sciResults[k].scientificLightIntensity = 10
                  /\ sciResults[k].shadowDetails = <<>>
            /\ sciResults[k].shadowCount = Cardinality(SciLargerInFront(k))
            /\ Len(sciResults[k].shadowDetails) = Cardinality(SciLargerStrictlyCloser(k))
            /\ Len(sciResults[k].shadowDetails) <= sciResults[k].shadowCount
            /\ (sciResults[k].light = "None (Multiple Shadows)"
                    /\ Cardinality(SciLargerStrictlyCloser(k)) >= 2) =>
                  sciResults[k].scientificLightIntensity = 0
            /\ "minimal" \notin DetailTypes(k)

C28_Witness ==
    /\ HasSciResults
    /\ \E k \in 1..Len(sciResults) :
          /\ sciResults[k].light = "None (Multiple Shadows)"
          /\ sciResults[k].shadowCount = 2
          /\ Len(sciResults[k].shadowDetails) = 1
          /\ sciResults[k].scientificLightIntensity = 4
    /\ \E k \in 1..Len(sciResults) :
          /\ sciResults[k].light = "Partial"
          /\ sciResults[k].shadowDetails = <<>>
          /\ sciResults[k].scientificLightIntensity = 10

CustomSystemEnded ==
    /\ call.fn \in {"createCustomSystem", "loadSystemFromFile"}
    /\ ret.status = "returned"

\* the planets handed to the call that has succeeded
InputPlanetsOfCall ==
    IF call.fn = "createCustomSystem" THEN call.planetData.items
    ELSE call.content.value.planets.items

SameValue(a, b) == a.kind = b.kind /\ (a.kind = "number" => a.v = b.v)

IsInputPlanet(validated, planet) ==
    /\ planet.name.kind = "string"
    /\ validated.name.kind = "string"
    /\ validated.name.s = trim(planet.name.s)
    /\ SameValue(validated.distance, planet.distance)
    /\ SameValue(validated.size, planet.size)

AscendingDistance(a, b) ==
    a.distance.kind = "number" /\ b.distance.kind = "number"
        /\ a.distance.v <= b.distance.v

ApartByThreshold(a, b) ==
    /\ a.distance.kind = "number" /\ b.distance.kind = "number"
    /\ (IF a.distance.v >= b.distance.v THEN a.distance.v - b.distance.v
                                        ELSE b.distance.v - a.distance.v)
            >= sameOrbitThreshold

(***************************************************************************)
(* C29: whenever createCustomSystem or loadSystemFromFile returns success, *)
(* the returned system contains every input planet, each input planet      *)
(* passed validatePlanet, planet names are pairwise distinct ignoring      *)
(* case, planets are in ascending order of distance and any two distances  *)
(* differ by at least 0.01 AU; on failure no system is returned, only the  *)
(* errors.                                                                 *)
(***************************************************************************)
C29_SuccessMeansValidSystem ==
    CustomSystemEnded =>
        IF ret.value.success
        THEN LET input == InputPlanetsOfCall
                 output == ret.value.system.planets
             IN  /\ Len(output) = Len(input)
                 /\ \A k \in 1..Len(input) :
                       /\ validatePlanet(input[k]).isValid
                       /\ \E j \in 1..Len(output) : IsInputPlanet(output[j], input[k])
                 /\ \A i, j \in 1..Len(output) :
                       i < j =>
                          /\ toLowerCase(output[i].name.s) # toLowerCase(output[j].name.s)
                          /\ AscendingDistance(output[i], output[j])
                          /\ ApartByThreshold(output[i], output[j])
        ELSE /\ "system" \notin DOMAIN ret.value
             /\ DOMAIN ret.value \cap {"errors", "error"} # {}

\* the two prompt loops that show the planet's number in the name prompt
InNumberedLoop == entry.fn \in {"promptPlanets", "getCustomPlanetData"}

AtNamePrompt == InNumberedLoop /\ entry.at = "name"

RejectionsSaid ==
    { "Invalid distance. Try again.", "Invalid diameter. Try again.",
      "Invalid input. Please enter positive numbers." }

\* a step that ends one planet's entry: from its distance or diameter prompt
\* back to a name prompt
EntryEnds ==
    /\ InNumberedLoop
    /\ entry.at \in {"distance", "diameter"}
    /\ entry'.at = "name"

(***************************************************************************)
(* C30: in promptPlanets and getCustomPlanetData the planet number shown   *)
(* at every name prompt is the number of planets accepted so far plus one: *)
(* an accepted entry appends exactly one planet and advances the number by *)
(* one, a rejected entry leaves the list and the number unchanged and      *)
(* restarts that planet's entry from the name prompt.                      *)
(***************************************************************************)
C30_NumberIsAcceptedPlusOne ==
    [][ /\ AtNamePrompt' => PlanetNumberShown' = Len(entered') + 1
        /\ (InNumberedLoop /\ entry.at \in {"distance", "diameter"}) =>
              /\ entry'.at \in {"name", "diameter"}
              /\ entry'.said \in RejectionsSaid => entry'.at = "name"
              /\ entry'.at = "diameter" => UNCHANGED entered
        /\ EntryEnds =>
              IF entry'.said \in RejectionsSaid
              THEN /\ entered' = entered
                   /\ PlanetNumberShown' = PlanetNumberShown
              ELSE /\ Len(entered') = Len(entered) + 1
                   /\ SubSeq(entered', 1, Len(entered)) = entered
                   /\ PlanetNumberShown' = PlanetNumberShown + 1
      ]_vars

C30_Witness ==
    /\ AtNamePrompt
    /\ Len(entered) = 1
    /\ entry.said \in RejectionsSaid
    /\ PlanetNumberShown = 2

====
